---- MODULE Spec2Model ----
(***************************************************************************)
(* A model of the streaming emitters and scenario simulators of httpbin:   *)
(*   /advanced/streaming, /paginated, /sse     (advanced_routes.py)        *)
(*   /realtime/feed, /notifications, /status   (streaming/realtime.py)     *)
(*   /simulate/fail, /random-status,                                       *)
(*   /simulate/rate-limit, /circuit-breaker    (simulation_routes.py)      *)
(*   /stress/connections, /stress/cascade      (scenarios/stress_tests.py) *)
(*   /util/health, /util/version, /util/ping   (utility_routes.py)         *)
(*                                                                         *)
(* One request is handled per behaviour (a utility endpoint may be called  *)
(* again with the same request).  Query parameters are texts (sequences of *)
(* one-character strings) that the handlers convert with int() and         *)
(* float(); durations are counted in tenths of a second, so 5.0 s is 50    *)
(* and 0.5 s is 5.  A generator's position is pc; what it has yielded, and *)
(* every sleep it has completed, is appended to trace in the order it      *)
(* happened, and the server writes the units to the client one by one.     *)
(* The clock is part of the state of the handlers that read it             *)
(* (time.time()); the count-driven generators never do, and their sleeps   *)
(* are recorded in trace only.                                             *)
(***************************************************************************)
EXTENDS Integers, Sequences, FiniteSets, TLC

VARIABLES
    handler,     \* the endpoint of the request being handled ("none" before it)
    pc,          \* position of the handler or of its generator
    req,         \* the raw parameters of the request, as received
    args,        \* the handler's local parameters after parsing and clamping
    i,           \* loop index of a `for i in range(..)` loop
    counter,     \* counter / update_count of the timed feeds; calls of a utility
    start_time,  \* start_time of the timed feeds
    now,         \* the wall clock as time.time() reads it, in tenths of a second
    trace,       \* units yielded and sleeps completed, in order
    status,      \* HTTP status of the response (0: none yet)
    body,        \* JSON body of a non-streamed response
    fault,       \* the exception that left the handler unhandled ("none")
    threads,     \* /stress/connections: state of each worker thread
    results,     \* /stress/connections: the shared results list
    stack,       \* /stress/cascade: current_depth of every active call
    result,      \* /stress/cascade: the value returned by the last call
    consumer,    \* the server's loop over a streamed response: "pulling" or "stopped"
    sent,        \* units of the stream the server has written to the client
    previous,    \* /util: the body returned by the call before this one (<<>>: none);
                 \* /convert: the array the CSV posted was made from
    other        \* a second request the server handles at the same time

\* The state of the request the model follows
own == <<handler, pc, req, args, i, counter, start_time, now, trace, status,
         body, fault, threads, results, stack, result, consumer, sent, previous>>

vars == <<own, other>>

-----------------------------------------------------------------------------
(* Bounds of the model *)

\* Small counts are explored exhaustively: -1 .. SmallN.
SmallN == 3
\* The clock may run this many tenths of a second past the end of a sleep.
MaxJitter == 1
\* Worker threads whose every interleaving is explored.
MaxConn == 3
\* random.random() is drawn from k / ProbScale, k in 0 .. ProbScale-1.
ProbScale == 4

-----------------------------------------------------------------------------
(* Program constants *)

MaxChunks == 100
MaxDelay == 50
DefaultChunks == 10
DefaultDelay == 5
MaxEvents == 50
MaxInterval == 50
DefaultEvents == 10
DefaultInterval == 10
MinFrequency == 5
DefaultFrequency == 20
MaxNotifications == 50
DefaultNotifications == 10
MaxFeedDuration == 120
DefaultFeedDuration == 30
FeedPause == 10
MinStatusInterval == 10
DefaultStatusInterval == 30
MaxStatusDuration == 300
DefaultStatusDuration == 60
MaxConnections == 50
ConnSleepMin == 1
ConnSleepMax == 10
MaxDepth == 10
CascadePause == 1
MinPage == 1
DefaultPage == 1
MinPerPage == 1
MaxPerPage == 100
DefaultPerPage == 20
DefaultTotalItems == 1000
DefaultLimit == 10
MinUptime == 100
MaxUptime == 10000
RetryAfterLimit == 60
RetryAfterCircuit == 30
MinOffset == 1
MaxOffset == 15
LastMinute == 59

-----------------------------------------------------------------------------
(* Texts and their conversion: str(), int(), float() *)

Digits == <<"0", "1", "2", "3", "4", "5", "6", "7", "8", "9">>

IsDigit(c) == \E d \in 1..10 : Digits[d] = c

DigitVal(c) == (CHOOSE d \in 1..10 : Digits[d] = c) - 1

RECURSIVE NatStr(_)
\* str(n) for n >= 0
NatStr(n) == IF n < 10 THEN <<Digits[n + 1]>>
             ELSE NatStr(n \div 10) \o <<Digits[(n % 10) + 1]>>

\* str(n)
IntStr(n) == IF n < 0 THEN <<"-">> \o NatStr(-n) ELSE NatStr(n)

\* The text of a duration of t tenths of a second, as a client writes it: "0.5"
TenthsStr(t) ==
    LET a == IF t < 0 THEN -t ELSE t
        s == NatStr(a \div 10) \o <<".">> \o NatStr(a % 10)
    IN  IF t < 0 THEN <<"-">> \o s ELSE s

RECURSIVE LStrip(_)
LStrip(s) == IF s # <<>> /\ Head(s) = " " THEN LStrip(Tail(s)) ELSE s

RECURSIVE RStrip(_)
RStrip(s) == IF s # <<>> /\ s[Len(s)] = " " THEN RStrip(SubSeq(s, 1, Len(s) - 1))
             ELSE s

\* str.strip()
Strip(s) == RStrip(LStrip(s))

AllDigits(s) == s # <<>> /\ \A k \in 1..Len(s) : IsDigit(s[k])

RECURSIVE DigitsVal(_)
DigitsVal(s) == IF s = <<>> THEN 0
                ELSE DigitsVal(SubSeq(s, 1, Len(s) - 1)) * 10 + DigitVal(s[Len(s)])

Ok(v) == [ok |-> TRUE, val |-> v]
ValueError == [ok |-> FALSE, val |-> 0]

\* An optional sign, then the rest
Unsigned(s) == IF s # <<>> /\ Head(s) \in {"+", "-"} THEN Tail(s) ELSE s
Sign(s) == IF s # <<>> /\ Head(s) = "-" THEN -1 ELSE 1

\* int(text): surrounding blanks are dropped, a sign is allowed, the rest must be
\* decimal digits; anything else raises ValueError.
ParseInt(text) ==
    LET s == Strip(text)
        u == Unsigned(s)
    IN  IF AllDigits(u) THEN Ok(Sign(s) * DigitsVal(u)) ELSE ValueError

\* Position of the first "." of s, 0 when there is none
DotAt(s) == IF \E k \in 1..Len(s) : s[k] = "."
            THEN CHOOSE k \in 1..Len(s) : s[k] = "." /\ \A j \in 1..(k - 1) : s[j] # "."
            ELSE 0

\* The text float() reads as positive infinity
InfText == <<"i", "n", "f">>

\* The float infinity, in the model's tenths: above every finite duration
Infinity == 1000000

\* time.sleep(d) accepts d: a duration beyond the platform's time range raises
\* OverflowError (of the durations of the model, only the infinite one)
Sleepable(d) == d < Infinity

\* float(text), in tenths: digits, or digits "." digit, with an optional sign,
\* or "inf".  (The texts the model sends carry at most one decimal; its other
\* texts raise ValueError in Python as well.)
ParseFloat(text) ==
    LET s == Strip(text)
        u == Unsigned(s)
        d == DotAt(u)
    IN  IF u = InfText THEN Ok(Sign(s) * Infinity)
        ELSE IF AllDigits(u) THEN Ok(Sign(s) * DigitsVal(u) * 10)
        ELSE IF d > 1 /\ d = Len(u) - 1 /\ AllDigits(SubSeq(u, 1, d - 1))
                /\ IsDigit(u[Len(u)])
             THEN Ok(Sign(s) * (DigitsVal(SubSeq(u, 1, d - 1)) * 10 + DigitVal(u[Len(u)])))
             ELSE ValueError

RECURSIVE Split(_, _)
\* text.split(sep): the pieces between the separators, at least one piece
Split(text, sep) ==
    IF \E k \in 1..Len(text) : text[k] = sep
    THEN LET k == CHOOSE k \in 1..Len(text) :
                      text[k] = sep /\ \A j \in 1..(k - 1) : text[j] # sep
         IN  <<SubSeq(text, 1, k - 1)>> \o Split(SubSeq(text, k + 1, Len(text)), sep)
    ELSE <<text>>

RECURSIVE Join(_, _)
\* sep.join(pieces)
Join(pieces, sep) ==
    IF pieces = <<>> THEN <<>>
    ELSE IF Len(pieces) = 1 THEN pieces[1]
    ELSE pieces[1] \o <<sep>> \o Join(Tail(pieces), sep)

\* A query parameter: absent, or present with a text.
Absent == [present |-> FALSE, text |-> <<>>]
Given(text) == [present |-> TRUE, text |-> text]

\* int(request.args.get(name, default))
ArgInt(p, default) == IF p.present THEN ParseInt(p.text) ELSE Ok(default)

\* float(request.args.get(name, default))
ArgFloat(p, default) == IF p.present THEN ParseFloat(p.text) ELSE Ok(default)

Min(a, b) == IF a < b THEN a ELSE b
Max(a, b) == IF a > b THEN a ELSE b

-----------------------------------------------------------------------------
(* What clients send *)

\* Texts that are no number
BadTexts == {<<"a", "b", "c">>, <<>>}

\* Integer parameters: absent, small values, the values around the documented
\* maximum, and texts that are no number.
IntParams(max) ==
    {Absent} \cup {Given(IntStr(n)) : n \in (-1..SmallN) \cup {max, max + 1}}
             \cup {Given(t) : t \in BadTexts}

\* Duration parameters around a floor or ceiling `edge` (in tenths)
FloatParams(edge) ==
    {Absent} \cup {Given(TenthsStr(t)) : t \in {-10, 0, edge, edge + 25}}
             \cup {Given(IntStr(1)), Given(<<"a", "b", "c">>), Given(InfText)}

\* Path parameters of an <int:..> route: the converter matches digits only
PathInts(max) == (0..SmallN) \cup {max, max + 1}

\* The `codes` texts sent to /simulate/random-status
CodesParams ==
    {Absent, Given(<<>>)}
    \cup {Given(Join(l, ",")) :
            l \in {<<IntStr(204)>>,
                   <<IntStr(200), IntStr(503)>>,
                   <<<<" ">> \o IntStr(404) \o <<" ">>, IntStr(200)>>,
                   <<<<"a", "b", "c">>, IntStr(200)>>,
                   <<IntStr(200), <<"a", "b", "c">>>>,
                   <<IntStr(200), <<>>, IntStr(500)>>,
                   <<TenthsStr(15), IntStr(200)>>}}

\* A duration far above every maximum of the handlers (1000 s)
LongPause == 10000

\* Calls of a utility endpoint in a row
MaxCalls == 3

\* Durations of the timed feeds, in seconds
DurationParams(max) ==
    {Absent} \cup {Given(IntStr(n)) : n \in (-1..SmallN) \cup {max + 1}}
             \cup {Given(<<"a", "b", "c">>)}

\* The requests sent to /realtime/status: every interval with the short
\* durations, and the longest duration with the default and a long interval.
StatusRequests ==
    (FloatParams(MinStatusInterval) \cup {Given(TenthsStr(LongPause))})
        \X (DurationParams(MaxStatusDuration) \ {Given(IntStr(MaxStatusDuration + 1))})
    \cup ({Absent, Given(TenthsStr(LongPause))} \X {Given(IntStr(MaxStatusDuration + 1))})

-----------------------------------------------------------------------------
(* The clock and time.sleep *)

\* time.sleep(d) returns after at least d: the clock readings it can lead to
AfterSleep(d) == {now + d + j : j \in 0..MaxJitter}

Slept(d) == [ev |-> "sleep", dur |-> d]

Init ==
    /\ handler = "none"
    /\ pc = "idle"
    /\ req = <<>>
    /\ args = <<>>
    /\ i = 0
    /\ counter = 0
    /\ start_time = 0
    /\ now = 0
    /\ trace = <<>>
    /\ status = 0
    /\ body = <<>>
    /\ fault = "none"
    /\ threads = <<>>
    /\ results = <<>>
    /\ stack = <<>>
    /\ result = <<>>
    /\ consumer = "pulling"
    /\ sent = 0
    /\ previous = <<>>
    /\ other = [handler |-> "none", pc |-> "idle", count |-> 0, i |-> 0,
                threads |-> <<>>, results |-> <<>>, status |-> 0, body |-> <<>>]

\* An exception nobody catches: the request ends there.  Before the first unit of
\* a stream (and in every non-streamed handler) the framework answers 500; once
\* a stream has started, the status line is already out and the stream is cut.
Raise(exc) ==
    /\ fault' = exc
    /\ pc' = "fault"
    /\ status' = IF status = 0 THEN 500 ELSE status

-----------------------------------------------------------------------------
(* A streamed response: Response(generate(), ...) *)

IsUnit(e) == e.ev # "sleep"
IsSleep(e) == e.ev = "sleep"

\* What the generator has yielded, in order
Units == SelectSeq(trace, IsUnit)
SleepCount == Len(SelectSeq(trace, IsSleep))

\* A generator that runs on without being asked for the next unit
PulledAhead == consumer = "pulling"

\* The body of a generator runs only while the server asks it for the next unit,
\* which the server does once it has written the unit before: a `yield` hands
\* the unit over and suspends the generator there.
Pulled == consumer = "pulling" /\ sent = Len(Units)

\* The server writes the unit it was handed to the client
Write ==
    /\ consumer = "pulling"
    /\ sent < Len(Units)
    /\ sent' = sent + 1
    /\ UNCHANGED <<handler, pc, req, args, i, counter, start_time, now, trace, status,
                   body, fault, threads, results, stack, result, consumer, previous, other>>

\* The client is gone: the write fails, the server asks for nothing more and
\* closes the generator, which ends at the `yield` it is suspended at (no
\* generator of the program catches GeneratorExit).
WriteFails ==
    /\ consumer = "pulling"
    /\ sent < Len(Units)
    /\ consumer' = "stopped"
    /\ pc' = IF pc \in {"done", "fault"} THEN pc ELSE "closed"
    /\ UNCHANGED <<handler, req, args, i, counter, start_time, now, trace, status, body,
                   fault, threads, results, stack, result, sent, previous, other>>

-----------------------------------------------------------------------------
(* GET /advanced/streaming *)

\* The clamp of `chunks` forgotten
StreamingClampDelayOnly(chunksValue, delayValue) ==
    [chunks |-> chunksValue, delay |-> Min(delayValue, MaxDelay)]

StreamingClamp(chunksValue, delayValue) ==
    [chunks |-> Min(chunksValue, MaxChunks), delay |-> Min(delayValue, MaxDelay)]

\* streaming_response: the parameters are parsed and clamped, and the response
\* (status 200) starts with the generator not yet run.
StreamingRequest(chunksParam, delayParam) ==
    /\ pc = "idle"
    /\ handler' = "streaming"
    /\ req' = [chunks |-> chunksParam, delay |-> delayParam]
    /\ LET c == ArgInt(chunksParam, DefaultChunks)
           d == ArgFloat(delayParam, DefaultDelay)
       IN  IF c.ok /\ d.ok
           THEN /\ args' = StreamingClamp(c.val, d.val)
                /\ pc' = "loop"
                /\ status' = 200
                /\ fault' = fault
           ELSE /\ args' = args
                /\ Raise("ValueError")
    /\ i' = 0
    /\ UNCHANGED <<counter, start_time, now, trace, body, threads, results, stack, result,
                   consumer, sent, previous, other>>

\* The total reported as the client wrote it, not as it is used
StreamingChunkAsRequested(k) ==
    [ev |-> "chunk", chunk |-> k + 1,
     total_chunks |-> ArgInt(req.chunks, DefaultChunks).val]

StreamingChunk(k) == [ev |-> "chunk", chunk |-> k + 1, total_chunks |-> args.chunks]

\* The test off by one: a sleep follows the last chunk as well
StreamingPausesAfterLast(k, chunks) == k < chunks

\* `if i < chunks - 1`: a sleep follows chunk k + 1
StreamingPauses(k, chunks) == k < chunks - 1

\* generate(): one pass of the loop body up to the yield
StreamingYield ==
    /\ handler = "streaming" /\ pc = "loop"
    /\ Pulled
    /\ i < args.chunks
    /\ trace' = Append(trace, StreamingChunk(i))
    /\ IF StreamingPauses(i, args.chunks)
       THEN pc' = "sleep" /\ i' = i
       ELSE pc' = "loop" /\ i' = i + 1
    /\ UNCHANGED <<handler, req, args, counter, start_time, now, status, body, fault,
                   threads, results, stack, result, consumer, sent, previous, other>>

\* generate(): time.sleep(delay) between two chunks; a negative delay raises
StreamingSleep ==
    /\ handler = "streaming" /\ pc = "sleep"
    /\ Pulled
    /\ IF args.delay < 0
       THEN /\ Raise("ValueError")
            /\ UNCHANGED <<trace, i>>
       ELSE /\ trace' = Append(trace, Slept(args.delay))
            /\ i' = i + 1
            /\ pc' = "loop"
            /\ UNCHANGED <<status, fault>>
    /\ UNCHANGED <<handler, req, args, counter, start_time, now, body, threads,
                   results, stack, result, consumer, sent, previous, other>>

\* generate(): range(chunks) is exhausted
StreamingEnd ==
    /\ handler = "streaming" /\ pc = "loop"
    /\ Pulled
    /\ i >= args.chunks
    /\ pc' = "done"
    /\ UNCHANGED <<handler, req, args, i, counter, start_time, now, trace, status, body,
                   fault, threads, results, stack, result, consumer, sent, previous, other>>

-----------------------------------------------------------------------------
(* GET /advanced/paginated *)

\* A value that may be None: <<>> is None, <<v>> is v
None == <<>>
Some(v) == <<v>>

\* page = max(1, ..); per_page = min(max(1, ..), 100)
PaginatedClamp(pageValue, perPageValue) ==
    [page |-> Max(MinPage, pageValue),
     per_page |-> Min(Max(MinPerPage, perPageValue), MaxPerPage)]

\* The round-up forgotten: a last page that is not full is not counted
TotalPagesRoundedDown(total_items, per_page) == total_items \div per_page

\* (total_items + per_page - 1) // per_page
TotalPages(total_items, per_page) == (total_items + per_page - 1) \div per_page

\* Items numbered by their index i instead of i + 1
ItemsByIndex(start_idx, end_idx) ==
    [n \in 1..Max(0, end_idx - start_idx) |-> [id |-> start_idx + n - 1]]

\* The ids of the items of range(start_idx, end_idx): i + 1 for each i
Items(start_idx, end_idx) ==
    [n \in 1..Max(0, end_idx - start_idx) |-> [id |-> start_idx + n]]

\* f"{base_url}?page={page}&per_page={per_page}", the base URL left out
Link(page, per_page) ==
    <<"?", "p", "a", "g", "e", "=">> \o IntStr(page)
        \o <<"&", "p", "e", "r", "_", "p", "a", "g", "e", "=">> \o IntStr(per_page)

\* The `pagination` object of the response
Pagination(page, per_page, total_items, total_pages) ==
    [page |-> page,
     per_page |-> per_page,
     total_items |-> total_items,
     total_pages |-> total_pages,
     has_prev |-> page > 1,
     has_next |-> page < total_pages,
     prev_page |-> IF page > 1 THEN Some(page - 1) ELSE None,
     next_page |-> IF page < total_pages THEN Some(page + 1) ELSE None,
     links |-> [first |-> Link(1, per_page),
                last |-> Link(total_pages, per_page),
                prev |-> IF page > 1 THEN Some(Link(page - 1, per_page)) ELSE None,
                next |-> IF page < total_pages THEN Some(Link(page + 1, per_page))
                         ELSE None]]

\* paginated_data
PaginatedRequest(pageParam, perPageParam, totalParam) ==
    /\ pc = "idle"
    /\ handler' = "paginated"
    /\ req' = [page |-> pageParam, per_page |-> perPageParam, total_items |-> totalParam]
    /\ LET p == ArgInt(pageParam, DefaultPage)
           pp == ArgInt(perPageParam, DefaultPerPage)
           t == ArgInt(totalParam, DefaultTotalItems)
       IN  IF p.ok /\ pp.ok /\ t.ok
           THEN LET c == PaginatedClamp(p.val, pp.val)
                    total_pages == TotalPages(t.val, c.per_page)
                    start_idx == (c.page - 1) * c.per_page
                    end_idx == Min(start_idx + c.per_page, t.val)
                IN  /\ args' = [page |-> c.page, per_page |-> c.per_page,
                                total_items |-> t.val]
                    /\ body' = [items |-> Items(start_idx, end_idx),
                                pagination |-> Pagination(c.page, c.per_page, t.val,
                                                          total_pages)]
                    /\ status' = 200
                    /\ pc' = "done"
                    /\ fault' = fault
           ELSE /\ Raise("ValueError")
                /\ UNCHANGED <<args, body>>
    /\ UNCHANGED <<i, counter, start_time, now, trace, threads, results, stack, result,
                   consumer, sent, previous, other>>

-----------------------------------------------------------------------------
(* GET /advanced/sse *)

SseClamp(eventsValue, intervalValue) ==
    [events |-> Min(eventsValue, MaxEvents), interval |-> Min(intervalValue, MaxInterval)]

SseRequest(eventsParam, intervalParam) ==
    /\ pc = "idle"
    /\ handler' = "sse"
    /\ req' = [events |-> eventsParam, interval |-> intervalParam]
    /\ LET e == ArgInt(eventsParam, DefaultEvents)
           v == ArgFloat(intervalParam, DefaultInterval)
       IN  IF e.ok /\ v.ok
           THEN /\ args' = SseClamp(e.val, v.val)
                /\ pc' = "loop"
                /\ status' = 200
                /\ fault' = fault
           ELSE /\ args' = args
                /\ Raise("ValueError")
    /\ i' = 0
    /\ UNCHANGED <<counter, start_time, now, trace, body, threads, results, stack, result,
                   consumer, sent, previous, other>>

SseData(k) == [ev |-> "data", event_id |-> k + 1]
SseComplete == [ev |-> "complete"]

\* `if i < events - 1`: a sleep follows event k + 1
SsePauses(k, events) == k < events - 1

\* event_stream(): one pass of the loop body up to the yield
SseYield ==
    /\ handler = "sse" /\ pc = "loop"
    /\ Pulled
    /\ i < args.events
    /\ trace' = Append(trace, SseData(i))
    /\ IF SsePauses(i, args.events)
       THEN pc' = "sleep" /\ i' = i
       ELSE pc' = "loop" /\ i' = i + 1
    /\ UNCHANGED <<handler, req, args, counter, start_time, now, status, body, fault,
                   threads, results, stack, result, consumer, sent, previous, other>>

\* event_stream(): time.sleep(interval) between two events
SseSleep ==
    /\ handler = "sse" /\ pc = "sleep"
    /\ Pulled
    /\ IF args.interval < 0
       THEN /\ Raise("ValueError")
            /\ UNCHANGED <<trace, i>>
       ELSE /\ trace' = Append(trace, Slept(args.interval))
            /\ i' = i + 1
            /\ pc' = "loop"
            /\ UNCHANGED <<status, fault>>
    /\ UNCHANGED <<handler, req, args, counter, start_time, now, body, threads,
                   results, stack, result, consumer, sent, previous, other>>

\* event_stream(): after the loop, the final event
SseFinal ==
    /\ handler = "sse" /\ pc = "loop"
    /\ Pulled
    /\ i >= args.events
    /\ trace' = Append(trace, SseComplete)
    /\ pc' = "done"
    /\ UNCHANGED <<handler, req, args, i, counter, start_time, now, status, body, fault,
                   threads, results, stack, result, consumer, sent, previous, other>>

-----------------------------------------------------------------------------
(* GET /realtime/notifications *)

NotificationClamp(frequencyValue, countValue) ==
    [frequency |-> Max(MinFrequency, frequencyValue),
     count |-> Min(countValue, MaxNotifications)]

NotificationRequest(frequencyParam, countParam) ==
    /\ pc = "idle"
    /\ handler' = "notifications"
    /\ req' = [frequency |-> frequencyParam, count |-> countParam]
    /\ LET f == ArgFloat(frequencyParam, DefaultFrequency)
           c == ArgInt(countParam, DefaultNotifications)
       IN  IF f.ok /\ c.ok
           THEN /\ args' = NotificationClamp(f.val, c.val)
                /\ pc' = "loop"
                /\ status' = 200
                /\ fault' = fault
           ELSE /\ args' = args
                /\ Raise("ValueError")
    /\ i' = 0
    /\ UNCHANGED <<counter, start_time, now, trace, body, threads, results, stack, result,
                   consumer, sent, previous, other>>

EventLine(type) == [ev |-> "event", type |-> type]
NotificationData(k) == [ev |-> "data", of |-> "notification", id |-> k + 1]
CompleteData == [ev |-> "data", of |-> "complete", id |-> 0]

\* `if i < count - 1`: a sleep follows notification k + 1
NotificationPauses(k, count) == k < count - 1

\* generate_notifications(): yield "event: notification\n"
NotificationYieldEvent ==
    /\ handler = "notifications" /\ pc = "loop"
    /\ Pulled
    /\ i < args.count
    /\ trace' = Append(trace, EventLine("notification"))
    /\ pc' = "data"
    /\ UNCHANGED <<handler, req, args, i, counter, start_time, now, status, body, fault,
                   threads, results, stack, result, consumer, sent, previous, other>>

\* generate_notifications(): yield the data line of notification i + 1
NotificationYieldData ==
    /\ handler = "notifications" /\ pc = "data"
    /\ Pulled
    /\ trace' = Append(trace, NotificationData(i))
    /\ IF NotificationPauses(i, args.count)
       THEN pc' = "sleep" /\ i' = i
       ELSE pc' = "loop" /\ i' = i + 1
    /\ UNCHANGED <<handler, req, args, counter, start_time, now, status, body, fault,
                   threads, results, stack, result, consumer, sent, previous, other>>

\* generate_notifications(): time.sleep(frequency) between two notifications; a
\* frequency time.sleep cannot take raises
NotificationSleep ==
    /\ handler = "notifications" /\ pc = "sleep"
    /\ Pulled
    /\ IF Sleepable(args.frequency)
       THEN /\ trace' = Append(trace, Slept(args.frequency))
            /\ i' = i + 1
            /\ pc' = "loop"
            /\ UNCHANGED <<status, fault>>
       ELSE /\ Raise("OverflowError")
            /\ UNCHANGED <<trace, i>>
    /\ UNCHANGED <<handler, req, args, counter, start_time, now, body, threads,
                   results, stack, result, consumer, sent, previous, other>>

\* generate_notifications(): after the loop, yield "event: complete\n"
NotificationCompleteEvent ==
    /\ handler = "notifications" /\ pc = "loop"
    /\ Pulled
    /\ i >= args.count
    /\ trace' = Append(trace, EventLine("complete"))
    /\ pc' = "final"
    /\ UNCHANGED <<handler, req, args, i, counter, start_time, now, status, body, fault,
                   threads, results, stack, result, consumer, sent, previous, other>>

\* generate_notifications(): the data line of the completion event
NotificationCompleteData ==
    /\ handler = "notifications" /\ pc = "final"
    /\ Pulled
    /\ trace' = Append(trace, CompleteData)
    /\ pc' = "done"
    /\ UNCHANGED <<handler, req, args, i, counter, start_time, now, status, body, fault,
                   threads, results, stack, result, consumer, sent, previous, other>>

-----------------------------------------------------------------------------
(* GET /realtime/feed *)

FeedTypes == {"metrics", "stock"}

FeedClamp(durationValue) == Min(durationValue, MaxFeedDuration)

FeedRequest(feedType, durationParam) ==
    /\ pc = "idle"
    /\ handler' = "feed"
    /\ req' = [feed_type |-> feedType, duration |-> durationParam]
    /\ LET d == ArgInt(durationParam, DefaultFeedDuration)
       IN  IF d.ok
           THEN /\ args' = [feed_type |-> feedType, duration |-> FeedClamp(d.val)]
                /\ pc' = "start"
                /\ status' = 200
                /\ fault' = fault
           ELSE /\ args' = args
                /\ Raise("ValueError")
    /\ UNCHANGED <<i, counter, start_time, now, trace, body, threads, results, stack,
                   result, consumer, sent, previous, other>>

\* A loop test that still holds at the very end of the duration
RunningAtDeadline(duration) == now - start_time <= duration * 10

\* time.time() - start_time < duration, the duration being in seconds
Running(duration) == now - start_time < duration * 10

\* generate_feed(): start_time = time.time(); counter = 0
FeedStart ==
    /\ handler = "feed" /\ pc = "start"
    /\ Pulled
    /\ start_time' = now
    /\ counter' = 0
    /\ pc' = "check"
    /\ UNCHANGED <<handler, req, args, i, now, trace, status, body, fault, threads,
                   results, stack, result, consumer, sent, previous, other>>

FeedItem(id) == [ev |-> "data", id |-> id, feed_type |-> args.feed_type]

\* generate_feed(): the loop test holds; counter += 1 and the frame is yielded
FeedYield ==
    /\ handler = "feed" /\ pc = "check"
    /\ Pulled
    /\ Running(args.duration)
    /\ counter' = counter + 1
    /\ trace' = Append(trace, FeedItem(counter + 1))
    /\ pc' = "sleep"
    /\ UNCHANGED <<handler, req, args, i, start_time, now, status, body, fault, threads,
                   results, stack, result, consumer, sent, previous, other>>

\* generate_feed(): time.sleep(1)
FeedSleep ==
    /\ handler = "feed" /\ pc = "sleep"
    /\ Pulled
    /\ \E t \in AfterSleep(FeedPause) : now' = t
    /\ trace' = Append(trace, Slept(FeedPause))
    /\ pc' = "check"
    /\ UNCHANGED <<handler, req, args, i, counter, start_time, status, body, fault,
                   threads, results, stack, result, consumer, sent, previous, other>>

\* generate_feed(): the loop test fails and the generator returns
FeedEnd ==
    /\ handler = "feed" /\ pc = "check"
    /\ Pulled
    /\ ~Running(args.duration)
    /\ pc' = "done"
    /\ UNCHANGED <<handler, req, args, i, counter, start_time, now, trace, status, body,
                   fault, threads, results, stack, result, consumer, sent, previous, other>>

-----------------------------------------------------------------------------
(* GET /realtime/status *)

StatusClamp(intervalValue, durationValue) ==
    [interval |-> Max(MinStatusInterval, intervalValue),
     duration |-> Min(durationValue, MaxStatusDuration)]

StatusRequest(intervalParam, durationParam) ==
    /\ pc = "idle"
    /\ handler' = "status"
    /\ req' = [interval |-> intervalParam, duration |-> durationParam]
    /\ LET v == ArgFloat(intervalParam, DefaultStatusInterval)
           d == ArgInt(durationParam, DefaultStatusDuration)
       IN  IF v.ok /\ d.ok
           THEN /\ args' = StatusClamp(v.val, d.val)
                /\ pc' = "start"
                /\ status' = 200
                /\ fault' = fault
           ELSE /\ args' = args
                /\ Raise("ValueError")
    /\ UNCHANGED <<i, counter, start_time, now, trace, body, threads, results, stack,
                   result, consumer, sent, previous, other>>

\* generate_status(): start_time = time.time(); update_count = 0
StatusStart ==
    /\ handler = "status" /\ pc = "start"
    /\ Pulled
    /\ start_time' = now
    /\ counter' = 0
    /\ pc' = "check"
    /\ UNCHANGED <<handler, req, args, i, now, trace, status, body, fault, threads,
                   results, stack, result, consumer, sent, previous, other>>

StatusData(id) == [ev |-> "data", of |-> "status_update", update_id |-> id]
StreamEndData(n) == [ev |-> "data", of |-> "stream_end", total_updates |-> n]

\* generate_status(): the loop test holds; update_count += 1 and
\* "event: status_update\n" is yielded
StatusYieldEvent ==
    /\ handler = "status" /\ pc = "check"
    /\ Pulled
    /\ Running(args.duration)
    /\ counter' = counter + 1
    /\ trace' = Append(trace, EventLine("status_update"))
    /\ pc' = "data"
    /\ UNCHANGED <<handler, req, args, i, start_time, now, status, body, fault, threads,
                   results, stack, result, consumer, sent, previous, other>>

\* generate_status(): the data line of the update
StatusYieldData ==
    /\ handler = "status" /\ pc = "data"
    /\ Pulled
    /\ trace' = Append(trace, StatusData(counter))
    /\ pc' = "sleep"
    /\ UNCHANGED <<handler, req, args, i, counter, start_time, now, status, body, fault,
                   threads, results, stack, result, consumer, sent, previous, other>>

\* generate_status(): time.sleep(interval); an interval time.sleep cannot take
\* raises
StatusSleep ==
    /\ handler = "status" /\ pc = "sleep"
    /\ Pulled
    /\ IF Sleepable(args.interval)
       THEN /\ \E t \in AfterSleep(args.interval) : now' = t
            /\ trace' = Append(trace, Slept(args.interval))
            /\ pc' = "check"
            /\ UNCHANGED <<status, fault>>
       ELSE /\ Raise("OverflowError")
            /\ UNCHANGED <<trace, now>>
    /\ UNCHANGED <<handler, req, args, i, counter, start_time, body, threads,
                   results, stack, result, consumer, sent, previous, other>>

\* generate_status(): the loop test fails; "event: stream_end\n" is yielded
StatusEndEvent ==
    /\ handler = "status" /\ pc = "check"
    /\ Pulled
    /\ ~Running(args.duration)
    /\ trace' = Append(trace, EventLine("stream_end"))
    /\ pc' = "final"
    /\ UNCHANGED <<handler, req, args, i, counter, start_time, now, status, body, fault,
                   threads, results, stack, result, consumer, sent, previous, other>>

\* generate_status(): the data line of the stream_end event
StatusEndData ==
    /\ handler = "status" /\ pc = "final"
    /\ Pulled
    /\ trace' = Append(trace, StreamEndData(counter))
    /\ pc' = "done"
    /\ UNCHANGED <<handler, req, args, i, counter, start_time, now, status, body, fault,
                   threads, results, stack, result, consumer, sent, previous, other>>

-----------------------------------------------------------------------------
(* /util/health, /util/version, /util/ping *)

\* The body health_check returns at time t when random.randint(100, 10000)
\* returns uptime
HealthBody(t, uptime) ==
    [status |-> "healthy",
     timestamp |-> t,
     version |-> "1.0.0",
     uptime |-> uptime,
     checks |-> [database |-> "ok", cache |-> "ok", external_api |-> "ok"]]

\* The body version_info returns
VersionBody ==
    [version |-> "2.1.0",
     build |-> "abc123def",
     build_date |-> "2024-01-15T10:30:00Z",
     environment |-> "test",
     features |-> <<"auth", "caching", "rate_limiting">>,
     dependencies |-> [flask |-> "2.3.0", requests |-> "2.31.0", redis |-> "4.5.0"]]

\* The body ping returns at time t
PingBody(t, method, client_ip) ==
    [message |-> "pong", timestamp |-> t, method |-> method, client_ip |-> client_ip]

\* A call of a utility endpoint: the first of the behaviour, or the same request
\* sent once more after the answer to the one before (at most MaxCalls in all).
\* The clock has moved on by d since the call before.
Called(name, request, d) ==
    /\ \/ pc = "idle" /\ d = 0
       \/ pc = "done" /\ handler = name /\ req = request /\ counter < MaxCalls
    /\ handler' = name
    /\ req' = request
    /\ counter' = counter + 1
    /\ previous' = body
    /\ now' = now + d
    /\ status' = 200
    /\ pc' = "done"
    /\ UNCHANGED <<args, i, start_time, trace, fault, threads, results, stack, result,
                   consumer, sent, other>>

\* health_check
HealthRequest(uptime, d) ==
    /\ Called("health", [method |-> "GET"], d)
    /\ body' = HealthBody(now', uptime)

\* version_info
VersionRequest(d) ==
    /\ Called("version", [method |-> "GET"], d)
    /\ body' = VersionBody

\* ping: method is request.method, client_ip is request.remote_addr
PingRequest(method, client_ip, d) ==
    /\ Called("ping", [method |-> method, client_ip |-> client_ip], d)
    /\ body' = PingBody(now', method, client_ip)

-----------------------------------------------------------------------------
(* /simulate/fail/<float:probability> *)

\* probability = max(0.0, min(1.0, probability)), in units of 1 / ProbScale
FailClamp(probability) == Max(0, Min(ProbScale, probability))

\* The comparison written <= : probability 0 fails on a draw of 0
FailOutcomeAtOrBelow(draw, probability) == IF draw <= probability THEN 500 ELSE 200

\* if random.random() < probability: ... 500, else 200
FailOutcome(draw, probability) == IF draw < probability THEN 500 ELSE 200

\* random_failure: the route's float converter hands over a number >= 0; draw is
\* what random.random() returns, in [0, 1).
FailRequest(probability, draw) ==
    /\ pc = "idle"
    /\ handler' = "fail"
    /\ req' = [probability |-> probability]
    /\ args' = [probability |-> FailClamp(probability), draw |-> draw]
    /\ status' = FailOutcome(draw, FailClamp(probability))
    /\ body' = IF FailOutcome(draw, FailClamp(probability)) = 500
               THEN [error |-> "Simulated failure", probability |-> FailClamp(probability)]
               ELSE [success |-> TRUE, probability |-> FailClamp(probability)]
    /\ pc' = "done"
    /\ UNCHANGED <<i, counter, start_time, now, trace, fault, threads, results, stack,
                   result, consumer, sent, previous, other>>

-----------------------------------------------------------------------------
(* /simulate/random-status *)

\* The default of the `codes` parameter: "200,404,500"
DefaultCodes == Join(<<IntStr(200), IntStr(404), IntStr(500)>>, ",")

RECURSIVE ParseAll(_)
\* [int(code.strip()) for code in pieces]: the first ValueError ends it
ParseAll(pieces) ==
    IF pieces = <<>> THEN Ok(<<>>)
    ELSE LET h == ParseInt(Strip(Head(pieces)))
         IN  IF ~h.ok THEN ValueError
             ELSE LET t == ParseAll(Tail(pieces))
                  IN  IF t.ok THEN Ok(<<h.val>> \o t.val) ELSE ValueError

\* codes_param.split(","), each piece converted
ParseCodes(codesParam) ==
    ParseAll(Split(IF codesParam.present THEN codesParam.text ELSE DefaultCodes, ","))

\* The response to unparsable codes
InvalidCodes == [status |-> 400, body |-> [error |-> "Invalid status codes"]]

\* The chosen code left out of the returned tuple: the answer is always 200
ChosenStatusAlwaysOk(codes, chosen_code) ==
    [status |-> 200,
     body |-> [status |-> chosen_code, available_codes |-> codes]]

\* The response built around the chosen code
ChosenStatus(codes, chosen_code) ==
    [status |-> chosen_code,
     body |-> [status |-> chosen_code, available_codes |-> codes]]

\* How many ways random.choice(codes) can go (none when the codes are refused)
Choices(codesParam) ==
    IF ParseCodes(codesParam).ok THEN 1..Len(ParseCodes(codesParam).val) ELSE {0}

\* random_status: `pick` is the position random.choice(codes) selects
RandomStatusRequest(codesParam, pick) ==
    /\ pc = "idle"
    /\ handler' = "random-status"
    /\ req' = [codes |-> codesParam]
    /\ LET codes == ParseCodes(codesParam)
           r == IF codes.ok THEN ChosenStatus(codes.val, codes.val[pick])
                ELSE InvalidCodes
       IN  /\ args' = IF codes.ok THEN [codes |-> codes.val, chosen_code |-> codes.val[pick]]
                      ELSE <<>>
           /\ status' = r.status
           /\ body' = r.body
    /\ pc' = "done"
    /\ UNCHANGED <<i, counter, start_time, now, trace, fault, threads, results, stack,
                   result, consumer, sent, previous, other>>

-----------------------------------------------------------------------------
(* /simulate/rate-limit *)

\* The count left as it is, not reduced modulo the limit
Unreduced(a, b) == a

\* a % b as Python computes it: the result has the sign of b
PyMod(a, b) == IF b > 0 THEN a % b ELSE -((-a) % (-b))

\* The response to a count that has reached the limit
RateLimited(limit, request_count) ==
    [status |-> 429,
     body |-> [error |-> "Rate limit exceeded", limit |-> limit,
               retry_after |-> RetryAfterLimit, current_count |-> request_count]]

\* The response to a count below the limit
WithinLimit(limit, request_count) ==
    [status |-> 200,
     body |-> [success |-> TRUE, rate_limit |-> limit, current_count |-> request_count,
               remaining |-> limit - request_count]]

\* `if request_count >= limit`
RateLimitOutcome(limit, request_count) ==
    IF request_count >= limit THEN RateLimited(limit, request_count)
    ELSE WithinLimit(limit, request_count)

\* rate_limit_test: current_minute is datetime.utcnow().minute and offset what
\* random.randint(1, 15) returns; `% limit` divides by zero when limit is 0.
RateLimitRequest(limitParam, current_minute, offset) ==
    /\ pc = "idle"
    /\ handler' = "rate-limit"
    /\ req' = [limit |-> limitParam]
    /\ LET l == ArgInt(limitParam, DefaultLimit)
       IN  IF ~l.ok
           THEN /\ Raise("ValueError")
                /\ UNCHANGED <<args, body>>
           ELSE IF l.val = 0
           THEN /\ Raise("ZeroDivisionError")
                /\ args' = [limit |-> l.val, current_minute |-> current_minute,
                            offset |-> offset]
                /\ body' = body
           ELSE LET request_count == PyMod(current_minute + offset, l.val)
                    r == RateLimitOutcome(l.val, request_count)
                IN  /\ args' = [limit |-> l.val, current_minute |-> current_minute,
                                offset |-> offset, request_count |-> request_count]
                    /\ status' = r.status
                    /\ body' = r.body
                    /\ pc' = "done"
                    /\ fault' = fault
    /\ UNCHANGED <<i, counter, start_time, now, trace, threads, results, stack, result,
                   consumer, sent, previous, other>>

-----------------------------------------------------------------------------
(* /simulate/circuit-breaker *)

UpperCase == <<"A", "B", "C", "D", "E", "F", "G", "H", "I", "J", "K", "L", "M",
               "N", "O", "P", "Q", "R", "S", "T", "U", "V", "W", "X", "Y", "Z">>
LowerCase == <<"a", "b", "c", "d", "e", "f", "g", "h", "i", "j", "k", "l", "m",
               "n", "o", "p", "q", "r", "s", "t", "u", "v", "w", "x", "y", "z">>

\* str.lower(): capital letters become small ones, the rest stays
Lower(text) ==
    [k \in 1..Len(text) |->
        IF \E n \in 1..26 : UpperCase[n] = text[k]
        THEN LowerCase[CHOOSE n \in 1..26 : UpperCase[n] = text[k]]
        ELSE text[k]]

ClosedText == <<"c", "l", "o", "s", "e", "d">>
OpenText == <<"o", "p", "e", "n">>
HalfOpenText == <<"h", "a", "l", "f", "-", "o", "p", "e", "n">>

CircuitOpen ==
    [status |-> 503,
     body |-> [error |-> "Service unavailable", circuit_breaker_state |-> "open",
               retry_after |-> RetryAfterCircuit]]

HalfOpenSucceeded ==
    [status |-> 200,
     body |-> [success |-> TRUE, circuit_breaker_state |-> "half-open",
               message |-> "Request succeeded, circuit may close"]]

HalfOpenFailed ==
    [status |-> 503,
     body |-> [error |-> "Service failed", circuit_breaker_state |-> "half-open -> open",
               message |-> "Request failed, circuit reopened",
               retry_after |-> RetryAfterCircuit]]

CircuitClosed ==
    [status |-> 200, body |-> [success |-> TRUE, circuit_breaker_state |-> "closed"]]

\* The half-open branch never taking the draw into account
HalfOpenAlwaysSucceeds(draw) == HalfOpenSucceeded

\* `if random.random() < 0.5`, the draw counted in units of 1 / ProbScale
HalfOpenOutcome(draw) == IF 2 * draw < ProbScale THEN HalfOpenSucceeded ELSE HalfOpenFailed

\* The if / elif / else over the state
CircuitOutcome(state, draw) ==
    IF state = OpenText THEN CircuitOpen
    ELSE IF state = HalfOpenText THEN HalfOpenOutcome(draw)
    ELSE CircuitClosed

\* circuit_breaker: draw is what random.random() returns when it is called
CircuitRequest(stateParam, draw) ==
    /\ pc = "idle"
    /\ handler' = "circuit-breaker"
    /\ req' = [state |-> stateParam]
    /\ LET state == Lower(IF stateParam.present THEN stateParam.text ELSE ClosedText)
           r == CircuitOutcome(state, draw)
       IN  /\ args' = [state |-> state, draw |-> draw]
           /\ status' = r.status
           /\ body' = r.body
    /\ pc' = "done"
    /\ UNCHANGED <<i, counter, start_time, now, trace, fault, threads, results, stack,
                   result, consumer, sent, previous, other>>

-----------------------------------------------------------------------------
(* /stress/connections/<int:count> *)

ConnectionClamp(count) == Min(count, MaxConnections)

RECURSIVE InsertById(_, _)
\* r placed behind every entry whose connection_id is not greater (stable)
InsertById(r, sorted) ==
    IF sorted = <<>> THEN <<r>>
    ELSE IF Head(sorted).connection_id <= r.connection_id
         THEN <<Head(sorted)>> \o InsertById(r, Tail(sorted))
         ELSE <<r>> \o sorted

RECURSIVE SortedById(_)
\* sorted(results, key=lambda x: x["connection_id"])
SortedById(list) ==
    IF list = <<>> THEN <<>>
    ELSE InsertById(list[Len(list)], SortedById(SubSeq(list, 1, Len(list) - 1)))

RECURSIVE SumDuration(_)
SumDuration(list) == IF list = <<>> THEN 0 ELSE Head(list).duration + SumDuration(Tail(list))

\* connection_simulation, up to the first thread: the route's int converter hands
\* over a count >= 0.
ConnectionRequest(count) ==
    /\ pc = "idle"
    /\ handler' = "connections"
    /\ req' = [count |-> count]
    /\ args' = [count |-> ConnectionClamp(count)]
    /\ results' = <<>>
    /\ threads' = [k \in 0..(ConnectionClamp(count) - 1) |-> [at |-> "new", slept |-> 0]]
    /\ i' = 0
    /\ pc' = "start"
    /\ UNCHANGED <<counter, start_time, now, trace, status, body, fault, stack, result,
                   consumer, sent, previous, other>>

\* The first loop of the main thread: thread i is created and started
ConnectionStartThread ==
    /\ handler = "connections" /\ pc = "start"
    /\ i < args.count
    /\ threads' = [threads EXCEPT ![i].at = "started"]
    /\ i' = i + 1
    /\ UNCHANGED <<handler, pc, req, args, counter, start_time, now, trace, status, body,
                   fault, results, stack, result, consumer, sent, previous, other>>

\* The first loop ends, the second begins
ConnectionStarted ==
    /\ handler = "connections" /\ pc = "start"
    /\ i >= args.count
    /\ pc' = "join"
    /\ i' = 0
    /\ UNCHANGED <<handler, req, args, counter, start_time, now, trace, status, body,
                   fault, threads, results, stack, result, consumer, sent, previous, other>>

\* Every interleaving of up to MaxConn workers is explored.  Above that the model
\* follows one schedule, the one that leaves `sorted` the most to undo: the
\* workers run once all are started, the highest id first, each for the
\* longest sleep.
Exhaustive == args.count <= MaxConn

MayRun(k) ==
    \/ Exhaustive
    \/ pc = "join" /\ \A m \in (k + 1)..(args.count - 1) : threads[m].at = "done"

\* random.uniform(0.1, 1.0): the two ends of the range
ConnSleeps == IF Exhaustive THEN {ConnSleepMin, ConnSleepMax} ELSE {ConnSleepMax}

\* simulate_connection(k): time.sleep(random.uniform(0.1, 1.0))
WorkerSleep(k) ==
    /\ handler = "connections"
    /\ k \in DOMAIN threads
    /\ threads[k].at = "started"
    /\ MayRun(k)
    /\ \E d \in ConnSleeps : threads' = [threads EXCEPT ![k] = [at |-> "slept", slept |-> d]]
    /\ UNCHANGED <<handler, pc, req, args, i, counter, start_time, now, trace, status,
                   body, fault, results, stack, result, consumer, sent, previous, other>>

\* simulate_connection(k): results.append({...}); the thread ends
WorkerAppend(k) ==
    /\ handler = "connections"
    /\ k \in DOMAIN threads
    /\ threads[k].at = "slept"
    /\ results' = Append(results, [connection_id |-> k, duration |-> threads[k].slept])
    /\ threads' = [threads EXCEPT ![k].at = "done"]
    /\ UNCHANGED <<handler, pc, req, args, i, counter, start_time, now, trace, status,
                   body, fault, stack, result, consumer, sent, previous, other>>

\* A join that returns without waiting for the thread
JoinedAtOnce(k) == TRUE

\* thread.join() of thread k returns: the thread has ended
Joined(k) == threads[k].at = "done"

\* The second loop of the main thread: thread.join() returns once thread i ended
ConnectionJoin ==
    /\ handler = "connections" /\ pc = "join"
    /\ i < args.count
    /\ Joined(i)
    /\ i' = i + 1
    /\ UNCHANGED <<handler, pc, req, args, counter, start_time, now, trace, status, body,
                   fault, threads, results, stack, result, consumer, sent, previous, other>>

\* The response: sum(...) / len(results) divides by zero when there is no result
ConnectionRespond ==
    /\ handler = "connections" /\ pc = "join"
    /\ i >= args.count
    /\ IF Len(results) = 0
       THEN /\ Raise("ZeroDivisionError")
            /\ body' = body
       ELSE /\ body' = [simulated_connections |-> args.count,
                        results |-> SortedById(results),
                        average_duration |-> [sum |-> SumDuration(results),
                                              len |-> Len(results)]]
            /\ status' = 200
            /\ pc' = "done"
            /\ fault' = fault
    /\ UNCHANGED <<handler, req, args, i, counter, start_time, now, trace, threads,
                   results, stack, result, consumer, sent, previous, other>>

-----------------------------------------------------------------------------
(* /stress/cascade/<int:depth> *)

\* The clamp of `depth` forgotten
CascadeNoClamp(depth) == depth

CascadeClamp(depth) == Min(depth, MaxDepth)

Top(s) == s[Len(s)]
Pop(s) == SubSeq(s, 1, Len(s) - 1)

\* cascade_requests, up to the call cascade_function(depth)
CascadeRequest(depth) ==
    /\ pc = "idle"
    /\ handler' = "cascade"
    /\ req' = [depth |-> depth]
    /\ args' = [depth |-> CascadeClamp(depth)]
    /\ start_time' = now
    /\ stack' = <<CascadeClamp(depth)>>
    /\ pc' = "call"
    /\ UNCHANGED <<i, counter, now, trace, status, body, fault, threads, results, result,
                   consumer, sent, previous, other>>

\* cascade_function: current_depth <= 0, the base case returns
CascadeBase ==
    /\ handler = "cascade" /\ pc = "call"
    /\ Top(stack) <= 0
    /\ result' = [level |-> 0]
    /\ stack' = Pop(stack)
    /\ pc' = "return"
    /\ UNCHANGED <<handler, req, args, i, counter, start_time, now, trace, status, body,
                   fault, threads, results, consumer, sent, previous, other>>

\* cascade_function: time.sleep(0.1) at a level above 0
CascadeSleep ==
    /\ handler = "cascade" /\ pc = "call"
    /\ Top(stack) > 0
    /\ \E t \in AfterSleep(CascadePause) : now' = t
    /\ trace' = Append(trace, Slept(CascadePause))
    /\ pc' = "recurse"
    /\ UNCHANGED <<handler, req, args, i, counter, start_time, status, body, fault,
                   threads, results, stack, result, consumer, sent, previous, other>>

\* A recursion that skips a level
BelowByTwo(current_depth) == current_depth - 2

\* The argument of the recursive call: current_depth - 1
Below(current_depth) == current_depth - 1

\* cascade_function: the call cascade_function(current_depth - 1)
CascadeRecurse ==
    /\ handler = "cascade" /\ pc = "recurse"
    /\ stack' = Append(stack, Below(Top(stack)))
    /\ pc' = "call"
    /\ UNCHANGED <<handler, req, args, i, counter, start_time, now, trace, status, body,
                   fault, threads, results, result, consumer, sent, previous, other>>

\* cascade_function: the call returned child_result; this level returns its own
CascadeReturn ==
    /\ handler = "cascade" /\ pc = "return"
    /\ stack # <<>>
    /\ result' = [level |-> Top(stack), child |-> result]
    /\ stack' = Pop(stack)
    /\ UNCHANGED <<handler, pc, req, args, i, counter, start_time, now, trace, status,
                   body, fault, threads, results, consumer, sent, previous, other>>

\* cascade_requests: the outermost call returned
CascadeRespond ==
    /\ handler = "cascade" /\ pc = "return"
    /\ stack = <<>>
    /\ body' = [requested_depth |-> args.depth,
                total_processing_time |-> now - start_time,
                cascade_result |-> result]
    /\ status' = 200
    /\ pc' = "done"
    /\ UNCHANGED <<handler, req, args, i, counter, start_time, now, trace, fault,
                   threads, results, stack, result, consumer, sent, previous, other>>

-----------------------------------------------------------------------------
(* A second request, handled by another thread of the server while the first
   is: another invocation of connection_simulation or of circuit_breaker, with
   locals of its own *)

\* Workers of a request of a pair of concurrent requests, at most
MaxRival == 2

NoRival ==
    [handler |-> "none", pc |-> "idle", count |-> 0, i |-> 0, threads |-> <<>>,
     results |-> <<>>, status |-> 0, body |-> <<>>]

\* One results list for all invocations: the worker of the second request
\* appends to the list of the first
RivalAppendShared(entry) == [first |-> Append(results, entry), second |-> other.results]

\* results = [] is a local of the invocation: the worker of the second request
\* appends to the list of its own invocation
RivalAppend(entry) == [first |-> results, second |-> Append(other.results, entry)]

\* connection_simulation of the second request, up to the first thread
RivalConnectionRequest(count) ==
    /\ other.pc = "idle"
    /\ other' = [handler |-> "connections", pc |-> "start",
                 count |-> ConnectionClamp(count), i |-> 0,
                 threads |-> [k \in 0..(ConnectionClamp(count) - 1) |->
                                [at |-> "new", slept |-> 0]],
                 results |-> <<>>, status |-> 0, body |-> <<>>]
    /\ UNCHANGED own

RivalStartThread ==
    /\ other.handler = "connections" /\ other.pc = "start"
    /\ other.i < other.count
    /\ other' = [other EXCEPT !.threads[other.i].at = "started", !.i = other.i + 1]
    /\ UNCHANGED own

RivalStarted ==
    /\ other.handler = "connections" /\ other.pc = "start"
    /\ other.i >= other.count
    /\ other' = [other EXCEPT !.pc = "join", !.i = 0]
    /\ UNCHANGED own

\* simulate_connection(k) of the second request: the sleep
RivalWorkerSleep(k) ==
    /\ other.handler = "connections"
    /\ k \in DOMAIN other.threads
    /\ other.threads[k].at = "started"
    /\ \E d \in {ConnSleepMin, ConnSleepMax} :
            other' = [other EXCEPT !.threads[k] = [at |-> "slept", slept |-> d]]
    /\ UNCHANGED own

\* simulate_connection(k) of the second request: results.append({...})
RivalWorkerAppend(k) ==
    /\ other.handler = "connections"
    /\ k \in DOMAIN other.threads
    /\ other.threads[k].at = "slept"
    /\ LET after == RivalAppend([connection_id |-> k,
                                 duration |-> other.threads[k].slept])
       IN  /\ results' = after.first
           /\ other' = [other EXCEPT !.results = after.second,
                                     !.threads[k].at = "done"]
    /\ UNCHANGED <<handler, pc, req, args, i, counter, start_time, now, trace, status,
                   body, fault, threads, stack, result, consumer, sent, previous>>

RivalJoin ==
    /\ other.handler = "connections" /\ other.pc = "join"
    /\ other.i < other.count
    /\ other.threads[other.i].at = "done"
    /\ other' = [other EXCEPT !.i = other.i + 1]
    /\ UNCHANGED own

\* The response of the second request (HTTP 500 when it divides by zero)
RivalRespond ==
    /\ other.handler = "connections" /\ other.pc = "join"
    /\ other.i >= other.count
    /\ other' = IF Len(other.results) = 0
                THEN [other EXCEPT !.pc = "fault", !.status = 500]
                ELSE [other EXCEPT
                        !.pc = "done",
                        !.status = 200,
                        !.body = [simulated_connections |-> other.count,
                                  results |-> SortedById(other.results),
                                  average_duration |->
                                      [sum |-> SumDuration(other.results),
                                       len |-> Len(other.results)]]]
    /\ UNCHANGED own

\* circuit_breaker of the second request
RivalCircuitRequest(stateParam, draw) ==
    /\ other.pc = "idle"
    /\ LET state == Lower(IF stateParam.present THEN stateParam.text ELSE ClosedText)
           r == CircuitOutcome(state, draw)
       IN  other' = [NoRival EXCEPT !.handler = "circuit-breaker", !.pc = "done",
                                    !.status = r.status, !.body = r.body]
    /\ UNCHANGED own

-----------------------------------------------------------------------------
(* POST /convert/json-to-csv and POST /convert/csv-to-json *)

\* Rows of the arrays the model posts, at most
MaxRows == 2

\* JSON values of a flat object: a number or a string (a text)
JNumber(n) == [type |-> "number", num |-> n, text |-> <<>>]
JString(t) == [type |-> "string", num |-> 0, text |-> t]

\* The keys of the objects, in the order sorted() puts them
KeyOrder == <<"a", "b">>

\* The values of the objects: a number, a plain text, the empty text, and a
\* text the CSV writer has to quote
JsonValues ==
    {JNumber(12), JString(<<"x">>), JString(<<>>), JString(<<"y", ",", "\"">>)}

\* The flat objects: every set of keys, every value under each key
JsonObjects ==
    UNION {[keys -> JsonValues] : keys \in SUBSET {KeyOrder[k] : k \in 1..Len(KeyOrder)}}

\* The arrays posted to /convert/json-to-csv: the empty one, and every array
\* of up to MaxRows flat objects
JsonArrays == UNION {[1..n -> JsonObjects] : n \in 0..MaxRows}

\* str(value), as csv.writer turns a value that is no string into one
StrOf(v) == IF v.type = "number" THEN IntStr(v.num) ELSE v.text

\* sorted(list(all_keys)), all_keys being the keys of all items
HeadersOf(data) ==
    SelectSeq(KeyOrder, LAMBDA key : \E r \in 1..Len(data) : key \in DOMAIN data[r])

\* The characters that make csv.writer quote a field (QUOTE_MINIMAL)
Special == {",", "\"", "\r", "\n"}

RECURSIVE Doubled(_)
\* Every quote of the field written twice
Doubled(field) ==
    IF field = <<>> THEN <<>>
    ELSE (IF Head(field) = "\"" THEN <<"\"", "\"">> ELSE <<Head(field)>>)
            \o Doubled(Tail(field))

\* A field as csv.writer writes it
WriteField(field) ==
    IF \E k \in 1..Len(field) : field[k] \in Special
    THEN <<"\"">> \o Doubled(field) \o <<"\"">>
    ELSE field

\* writer.writerow(fields): the fields joined by commas and ended by "\r\n"; a
\* row of one empty field is written as "" so that the line is not blank
WriteRow(fields) ==
    (IF fields = <<<<>>>> THEN <<"\"", "\"">>
     ELSE Join([k \in 1..Len(fields) |-> WriteField(fields[k])], ","))
        \o <<"\r", "\n">>

\* {key: item.get(key, "") for key in headers}, each value as a text
RowOf(item, headers) ==
    [k \in 1..Len(headers) |->
        IF headers[k] \in DOMAIN item THEN StrOf(item[headers[k]]) ELSE <<>>]

RECURSIVE WriteRows(_, _)
WriteRows(data, headers) ==
    IF data = <<>> THEN <<>>
    ELSE WriteRow(RowOf(Head(data), headers)) \o WriteRows(Tail(data), headers)

\* writer.writeheader() and a writer.writerow(row) for each item
CsvOf(data) ==
    LET headers == HeadersOf(data)
    IN  WriteRow([k \in 1..Len(headers) |-> <<headers[k]>>]) \o WriteRows(data, headers)

\* json_to_csv: an empty array is refused with 400.  (The arrays of the model
\* hold objects only, so `not isinstance(data[0], dict)` never holds.)
JsonToCsvRequest(data) ==
    /\ pc = "idle"
    /\ handler' = "json-to-csv"
    /\ req' = [data |-> data]
    /\ IF data = <<>>
       THEN /\ status' = 400
            /\ body' = [error |-> "Input must be a non-empty array of objects"]
            /\ args' = args
       ELSE /\ status' = 200
            /\ body' = [csv |-> CsvOf(data)]
            /\ args' = [headers |-> HeadersOf(data)]
    /\ pc' = "done"
    /\ UNCHANGED <<i, counter, start_time, now, trace, fault, threads, results, stack,
                   result, consumer, sent, previous, other>>

\* csv.reader, reading a text csv.writer wrote: a quote opens or closes a
\* quoted field, or is one of the two quotes that stand for a quote inside it.
\* Where the record that begins at position k of the text ends: the position
\* of its line end outside quotes, Len(text) + 1 when there is none
RECURSIVE RecordEnd(_, _, _)
RecordEnd(text, k, quoted) ==
    IF k > Len(text) THEN k
    ELSE IF text[k] = "\"" THEN RecordEnd(text, k + 1, ~quoted)
    ELSE IF ~quoted /\ text[k] \in {"\r", "\n"} THEN k
    ELSE RecordEnd(text, k + 1, quoted)

\* Where the field that begins at position k of the record ends: the position
\* of its comma outside quotes, Len(record) + 1 when there is none
RECURSIVE FieldEnd(_, _, _)
FieldEnd(record, k, quoted) ==
    IF k > Len(record) THEN k
    ELSE IF record[k] = "\"" THEN FieldEnd(record, k + 1, ~quoted)
    ELSE IF ~quoted /\ record[k] = "," THEN k
    ELSE FieldEnd(record, k + 1, quoted)

RECURSIVE Undoubled(_)
\* The inside of a quoted field: two quotes read as one
Undoubled(inside) ==
    IF inside = <<>> THEN <<>>
    ELSE IF Head(inside) = "\"" /\ Len(inside) >= 2 /\ inside[2] = "\""
         THEN <<"\"">> \o Undoubled(Tail(Tail(inside)))
         ELSE <<Head(inside)>> \o Undoubled(Tail(inside))

RECURSIVE CloseFrom(_, _)
\* The position, from k on, of the quote that closes the quoted field: the
\* first quote that is not the first of two, Len(raw) + 1 when there is none
CloseFrom(raw, k) ==
    IF k > Len(raw) THEN k
    ELSE IF raw[k] # "\"" THEN CloseFrom(raw, k + 1)
    ELSE IF k < Len(raw) /\ raw[k + 1] = "\"" THEN CloseFrom(raw, k + 2)
    ELSE k

\* A field as csv.reader reads it: one that begins with a quote is read up to
\* its closing quote, what follows the closing quote is taken as it is
ReadField(raw) ==
    IF raw # <<>> /\ Head(raw) = "\""
    THEN LET m == CloseFrom(raw, 2)
         IN  Undoubled(SubSeq(raw, 2, m - 1)) \o SubSeq(raw, m + 1, Len(raw))
    ELSE raw

RECURSIVE ReadFields(_)
\* The fields of a record that is not blank
ReadFields(record) ==
    LET m == FieldEnd(record, 1, FALSE)
    IN  IF m > Len(record) THEN <<ReadField(record)>>
        ELSE <<ReadField(SubSeq(record, 1, m - 1))>>
                \o ReadFields(SubSeq(record, m + 1, Len(record)))

RECURSIVE ReadCsv(_)
\* csv.reader over the text: one row for each line, a blank line giving []; a
\* line ends at "\r\n", "\r" or "\n" outside quotes
ReadCsv(text) ==
    IF text = <<>> THEN <<>>
    ELSE LET m == RecordEnd(text, 1, FALSE)
             record == SubSeq(text, 1, m - 1)
             next == IF m < Len(text) /\ text[m] = "\r" /\ text[m + 1] = "\n"
                     THEN m + 2 ELSE m + 1
         IN  <<IF record = <<>> THEN <<>> ELSE ReadFields(record)>>
                \o ReadCsv(SubSeq(text, next, Len(text)))

\* csv.DictReader: the first row read gives the field names
FieldNames(text) == IF ReadCsv(text) = <<>> THEN <<>> ELSE Head(ReadCsv(text))

\* csv.DictReader: of the rows after the first, the blank ones are skipped and
\* each other one becomes an object, a field the row is short of being None.
\* (A row longer than the field names does not come out of json_to_csv.)
DictReader(text) ==
    LET rows == ReadCsv(text)
        fieldnames == FieldNames(text)
        filled == SelectSeq(IF rows = <<>> THEN <<>> ELSE Tail(rows),
                            LAMBDA row : row # <<>>)
    IN  [r \in 1..Len(filled) |->
            [name \in {fieldnames[k] : k \in 1..Len(fieldnames)} |->
                LET k == CHOOSE j \in 1..Len(fieldnames) :
                              /\ fieldnames[j] = name
                              /\ \A l \in (j + 1)..Len(fieldnames) : fieldnames[l] # name
                IN  IF k <= Len(filled[r]) THEN Some(filled[r][k]) ELSE None]]

\* csv_to_json, posted the CSV that json_to_csv answered with
CsvToJsonRequest ==
    /\ handler = "json-to-csv" /\ pc = "done" /\ status = 200
    /\ handler' = "csv-to-json"
    /\ previous' = req.data
    /\ req' = [data |-> body.csv]
    /\ args' = [csv_content |-> body.csv]
    /\ LET json_data == DictReader(body.csv)
       IN  body' = [converted_data |-> json_data,
                    row_count |-> Len(json_data),
                    columns |-> IF json_data = <<>> THEN <<>>
                                ELSE FieldNames(body.csv)]
    /\ UNCHANGED <<pc, status, i, counter, start_time, now, trace, fault, threads,
                   results, stack, result, consumer, sent, other>>

-----------------------------------------------------------------------------

\* The requests the model sends to each endpoint
StreamingRequests == IntParams(MaxChunks) \X FloatParams(MaxDelay)
SseRequests == IntParams(MaxEvents) \X FloatParams(MaxInterval)
PaginatedRequests ==
    (IntParams(DefaultPage) \ {Given(<<>>)})
        \X (IntParams(MaxPerPage) \ {Given(<<>>)})
        \X ((IntParams(DefaultTotalItems) \ {Given(<<>>)})
                \cup {Given(IntStr(2 * SmallN + 1)), Given(IntStr(2 * MaxPerPage))})
NotificationRequests ==
    (FloatParams(MinFrequency) \cup {Given(TenthsStr(LongPause))})
        \X IntParams(MaxNotifications)
FeedRequests == FeedTypes \X DurationParams(MaxFeedDuration)
FailRequests == (0..(2 * ProbScale)) \X (0..(ProbScale - 1))
RandomStatusRequests == UNION {{<<c, pick>> : pick \in Choices(c)} : c \in CodesParams}
ConnectionRequests == PathInts(MaxConnections)
CascadeRequests == PathInts(MaxDepth)
RateLimitRequests ==
    (IntParams(DefaultLimit) \cup {Given(IntStr(-7)), Given(IntStr(LastMinute + MaxOffset + 1))})
        \X {0, 7, LastMinute} \X {MinOffset, MinOffset + 1, MaxOffset}
Uptimes == {MinUptime, MaxUptime}
Gaps == 0..MaxJitter
PingRequests == {"GET", "POST"} \X {"127.0.0.1", "10.0.0.7"} \X Gaps
CircuitRequests ==
    ({Absent, Given(<<>>), Given(<<"a", "b", "c">>)}
        \cup {Given(t) : t \in {ClosedText, OpenText, HalfOpenText,
                                <<"O", "P", "E", "N">>,
                                <<"H", "a", "l", "f", "-", "O", "p", "e", "n">>,
                                <<"h", "a", "l", "f", "o", "p", "e", "n">>}})
    \X (0..(ProbScale - 1))

Next ==
    \/ \E r \in StreamingRequests : StreamingRequest(r[1], r[2])
    \/ StreamingYield
    \/ StreamingSleep
    \/ StreamingEnd
    \/ \E r \in PaginatedRequests : PaginatedRequest(r[1], r[2], r[3])
    \/ \E r \in SseRequests : SseRequest(r[1], r[2])
    \/ SseYield
    \/ SseSleep
    \/ SseFinal
    \/ \E r \in NotificationRequests : NotificationRequest(r[1], r[2])
    \/ NotificationYieldEvent
    \/ NotificationYieldData
    \/ NotificationSleep
    \/ NotificationCompleteEvent
    \/ NotificationCompleteData
    \/ \E r \in FeedRequests : FeedRequest(r[1], r[2])
    \/ FeedStart
    \/ FeedYield
    \/ FeedSleep
    \/ FeedEnd
    \/ \E r \in StatusRequests : StatusRequest(r[1], r[2])
    \/ StatusStart
    \/ StatusYieldEvent
    \/ StatusYieldData
    \/ StatusSleep
    \/ StatusEndEvent
    \/ StatusEndData
    \/ \E u \in Uptimes, d \in Gaps : HealthRequest(u, d)
    \/ \E d \in Gaps : VersionRequest(d)
    \/ \E r \in PingRequests : PingRequest(r[1], r[2], r[3])
    \/ \E r \in FailRequests : FailRequest(r[1], r[2])
    \/ \E r \in RandomStatusRequests : RandomStatusRequest(r[1], r[2])
    \/ \E r \in RateLimitRequests : RateLimitRequest(r[1], r[2], r[3])
    \/ \E r \in CircuitRequests : CircuitRequest(r[1], r[2])
    \/ \E n \in ConnectionRequests : ConnectionRequest(n)
    \/ ConnectionStartThread
    \/ ConnectionStarted
    \/ \E k \in DOMAIN threads : WorkerSleep(k)
    \/ \E k \in DOMAIN threads : WorkerAppend(k)
    \/ ConnectionJoin
    \/ ConnectionRespond
    \/ \E d \in CascadeRequests : CascadeRequest(d)
    \/ CascadeBase
    \/ CascadeSleep
    \/ CascadeRecurse
    \/ CascadeReturn
    \/ CascadeRespond
    \/ Write
    \/ WriteFails

Spec == Init /\ [][Next]_vars

\* /simulate/rate-limit on its own, at every minute of the hour, with every
\* offset random.randint(1, 15) can return and every limit up to the first
\* that no sum of a minute and an offset reaches
RateLimitNext ==
    /\ pc = "idle"
    /\ \E limitParam \in IntParams(DefaultLimit)
                           \cup {Given(IntStr(n)) : n \in 1..(LastMinute + MaxOffset + 1)},
          current_minute \in 0..LastMinute, offset \in MinOffset..MaxOffset :
            RateLimitRequest(limitParam, current_minute, offset)

RateLimitSpec == Init /\ [][RateLimitNext]_vars

\* The counts of a pair of concurrent /stress/connections requests
PairCounts == 0..MaxRival

\* Two requests at the same time, each to /stress/connections or to
\* /simulate/circuit-breaker: the threads of the server run in any order
PairNext ==
    \/ \E n \in PairCounts : ConnectionRequest(n)
    \/ ConnectionStartThread
    \/ ConnectionStarted
    \/ \E k \in DOMAIN threads : WorkerSleep(k)
    \/ \E k \in DOMAIN threads : WorkerAppend(k)
    \/ ConnectionJoin
    \/ ConnectionRespond
    \/ \E r \in CircuitRequests : CircuitRequest(r[1], r[2])
    \/ \E n \in PairCounts : RivalConnectionRequest(n)
    \/ RivalStartThread
    \/ RivalStarted
    \/ \E k \in DOMAIN other.threads : RivalWorkerSleep(k)
    \/ \E k \in DOMAIN other.threads : RivalWorkerAppend(k)
    \/ RivalJoin
    \/ RivalRespond
    \/ \E r \in CircuitRequests : RivalCircuitRequest(r[1], r[2])

PairSpec == Init /\ [][PairNext]_vars

\* The two converters: an array is posted to /convert/json-to-csv and the CSV
\* it answers with is posted to /convert/csv-to-json
ConvertNext ==
    \/ pc = "idle" /\ \E data \in JsonArrays : JsonToCsvRequest(data)
    \/ CsvToJsonRequest

ConvertSpec == Init /\ [][ConvertNext]_vars

\* /stress/cascade on its own
CascadeNext ==
    \/ \E r \in CascadeRequests : CascadeRequest(r)
    \/ CascadeBase
    \/ CascadeSleep
    \/ CascadeRecurse
    \/ CascadeReturn
    \/ CascadeRespond

\* The handler runs in a thread of the server, which keeps running it: a step
\* the handler can take is taken in the end (time.sleep returns)
CascadeSpec == Init /\ [][CascadeNext]_vars /\ WF_vars(CascadeNext)

-----------------------------------------------------------------------------
(* Reading a finished or running stream *)

\* The handler has ended, by returning or by an unhandled exception
Finished == pc \in {"done", "fault"}

\* The parameters were accepted and the response started
Accepted == pc # "idle" /\ ~(pc = "fault" /\ status = 500)

-----------------------------------------------------------------------------
(* C1: a request to /advanced/streaming whose effective chunk count is N,
   1 <= N <= 100, ends having emitted exactly N chunks whose `chunk` fields
   are 1, 2, ..., N in this order, each with total_chunks = N. *)
C1_ExactlyNChunks ==
    (handler = "streaming" /\ Accepted /\ Finished
        /\ 1 <= args.chunks /\ args.chunks <= MaxChunks)
    => /\ Len(Units) = args.chunks
       /\ \A k \in 1..Len(Units) :
             /\ Units[k].ev = "chunk"
             /\ Units[k].chunk = k
             /\ Units[k].total_chunks = args.chunks

-----------------------------------------------------------------------------
(* C2: for every events = N >= 0 (after clamping) and every interval the
   parser accepts, /advanced/sse ends having emitted exactly N data frames
   followed by exactly one `event: complete` frame, which is the last frame. *)
C2_NDataThenComplete ==
    (handler = "sse" /\ Accepted /\ Finished /\ args.events >= 0)
    => /\ Len(Units) = args.events + 1
       /\ \A k \in 1..args.events : Units[k] = SseData(k - 1)
       /\ Units[Len(Units)] = SseComplete

-----------------------------------------------------------------------------
(* C3: in the /advanced/streaming generator every sleep lies strictly between
   the emission of chunk k and of chunk k + 1 and lasts `delay`; once the
   generator has ended after emitting N >= 1 chunks it has slept exactly
   N - 1 times, and nothing follows the last chunk. *)
C3_SleepsOnlyBetweenChunks ==
    handler = "streaming" /\ Accepted =>
        /\ \A p \in 1..Len(trace) :
              IsSleep(trace[p]) =>
                  /\ trace[p].dur = args.delay
                  /\ p > 1 /\ trace[p - 1].ev = "chunk"
                  /\ p < Len(trace) =>
                        /\ trace[p + 1].ev = "chunk"
                        /\ trace[p + 1].chunk = trace[p - 1].chunk + 1
        /\ \A p \in 1..(Len(trace) - 1) :
              trace[p].ev = "chunk" => IsSleep(trace[p + 1])
        /\ (Finished /\ Len(Units) >= 1) =>
              /\ SleepCount = Len(Units) - 1
              /\ trace[Len(trace)].ev = "chunk"

\* A stream of three chunks or more has ended, two sleeps or more inside it
C3_Witness ==
    /\ handler = "streaming" /\ pc = "done"
    /\ Len(Units) >= 3
    /\ SleepCount = Len(Units) - 1
    /\ args.delay > 0

-----------------------------------------------------------------------------
(* C4: /simulate/fail/{probability} fails (HTTP 500) exactly when the draw,
   taken from [0, 1), is below the probability clamped to [0, 1], and succeeds
   (HTTP 200) otherwise: probability 0 never fails and probability 1 (or
   more) always fails, whatever the draw.  Draws and probabilities are counted
   in units of 1 / ProbScale. *)
C4_FailsExactlyBelowProbability ==
    (handler = "fail" /\ pc = "done") =>
        LET p == req.probability
            clamped == IF p > ProbScale THEN ProbScale ELSE IF p < 0 THEN 0 ELSE p
        IN  /\ status \in {200, 500}
            /\ status = 500 <=> args.draw < clamped
            /\ p = 0 => status = 200
            /\ p >= ProbScale => status = 500
            /\ status = 500 <=> "error" \in DOMAIN body

\* Probability 1 fails even on the highest draw
C4_Witness ==
    /\ handler = "fail" /\ pc = "done"
    /\ req.probability = ProbScale
    /\ args.draw = ProbScale - 1
    /\ status = 500

-----------------------------------------------------------------------------
(* C5: whatever the count and the order in which the workers complete,
   /stress/connections/{count} ends by returning (HTTP 200) a results list
   sorted by ascending connection_id that holds each id 0 .. count-1 exactly
   once, count being clamped to 50. *)
C5_ReturnsSortedResults ==
    (handler = "connections" /\ Finished) =>
        /\ status = 200
        /\ Len(body.results) = args.count
        /\ \A k \in 1..Len(body.results) : body.results[k].connection_id = k - 1

-----------------------------------------------------------------------------
RECURSIVE Levels(_)
\* The `level` values of a nested trace, outermost first
Levels(r) == IF "child" \in DOMAIN r THEN <<r.level>> \o Levels(r.child) ELSE <<r.level>>

(* C6: for every requested depth d >= 0, /stress/cascade/{depth} returns a
   nested trace of exactly min(d, 10) + 1 levels whose `level` values are,
   from the outermost to the innermost, min(d, 10), ..., 1, 0; the innermost
   is the base case and has no `child`. *)
C6_CascadeLevels ==
    (handler = "cascade" /\ pc = "done") =>
        LET m == IF req.depth > 10 THEN 10 ELSE req.depth
            levels == Levels(body.cascade_result)
        IN  /\ status = 200
            /\ Len(levels) = m + 1
            /\ \A k \in 1..Len(levels) : levels[k] = m - (k - 1)

\* A depth above the maximum came back as 11 levels, 10 down to 0
C6_Witness ==
    /\ handler = "cascade" /\ pc = "done"
    /\ req.depth > MaxDepth
    /\ Levels(body.cascade_result) = <<10, 9, 8, 7, 6, 5, 4, 3, 2, 1, 0>>

-----------------------------------------------------------------------------
(* C7: whatever integer the client sends, the value the handler works with
   stays within its documented maximum: streaming chunks <= 100, SSE events
   <= 50, notification count <= 50, feed duration <= 120, status duration
   <= 300, cascade depth <= 10, connection count <= 50; and so does the work
   done with it (units emitted, threads created, calls active). *)
C7_ClampedToMaxima ==
    /\ (handler = "streaming" /\ Accepted) =>
           args.chunks <= 100 /\ Len(Units) <= 100
    /\ (handler = "sse" /\ Accepted) =>
           args.events <= 50 /\ Len(Units) <= 50 + 1
    /\ (handler = "notifications" /\ Accepted) =>
           args.count <= 50 /\ Len(Units) <= 2 * (50 + 1)
    /\ (handler = "feed" /\ Accepted) =>
           args.duration <= 120 /\ now - start_time <= (120 + 1) * 10 + MaxJitter
    /\ (handler = "status" /\ Accepted) => args.duration <= 300
    /\ handler = "cascade" => args.depth <= 10 /\ Len(stack) <= 10 + 1
    /\ handler = "connections" =>
           args.count <= 50 /\ Cardinality(DOMAIN threads) <= 50

\* A request for more than 100 chunks is being served with 100
C7_Witness ==
    /\ handler = "streaming" /\ pc = "done"
    /\ ParseInt(req.chunks.text).val > MaxChunks
    /\ args.chunks = MaxChunks
    /\ Len(Units) = MaxChunks

-----------------------------------------------------------------------------
\* The constant that bounds a single sleep of the handler, in tenths of a second
SleepCeiling ==
    CASE handler = "streaming" -> MaxDelay
      [] handler = "sse" -> MaxInterval
      [] handler = "feed" -> FeedPause
      [] handler = "cascade" -> CascadePause
      [] OTHER -> MaxStatusDuration * 10

(* C8: in every core handler each single sleep is bounded above by a constant
   that a clamp fixes when the request is parsed, whatever delay, interval or
   frequency the client sends: 5 s in /advanced/streaming and /advanced/sse,
   1 s in /realtime/feed and /stress/connections, 0.1 s in /stress/cascade,
   and, for /realtime/notifications and /realtime/status, no more than the
   largest constant any clamp of the core fixes (300 s). *)
C8_EverySleepBounded ==
    /\ \A p \in 1..Len(trace) : IsSleep(trace[p]) => trace[p].dur <= SleepCeiling
    /\ \A k \in DOMAIN threads : threads[k].slept <= ConnSleepMax

-----------------------------------------------------------------------------
\* The numeric query parameters of the handler
NumericFields ==
    CASE handler = "streaming" -> {"chunks", "delay"}
      [] handler = "sse" -> {"events", "interval"}
      [] handler = "notifications" -> {"frequency", "count"}
      [] handler = "feed" -> {"duration"}
      [] handler = "status" -> {"interval", "duration"}
      [] OTHER -> {}

\* The text holds no digit at all
NoNumber(p) == p.present /\ \A k \in 1..Len(p.text) : ~IsDigit(p.text[k])

(* C9: a value that is no number, sent for a numeric query parameter (chunks,
   delay, events, interval, duration, frequency, count), never ends the
   handler with an unhandled exception: the handler falls back to the default
   (HTTP 200) or answers with a 400-class status. *)
C9_NoUnhandledFault ==
    (\E f \in NumericFields : NoNumber(req[f])) =>
        /\ fault = "none"
        /\ status = 200 \/ (400 <= status /\ status <= 499)

-----------------------------------------------------------------------------
\* The text the handler splits
CodesText == IF req.codes.present THEN req.codes.text ELSE DefaultCodes

\* An entry reads as an integer: blanks, an optional sign, digits
IsInteger(piece) == AllDigits(Unsigned(Strip(piece)))

(* C10: /simulate/random-status answers HTTP 400 with an `error` body, and
   chooses no code, when an entry of the comma-separated `codes` is not an
   integer; otherwise the chosen code is one of the entries and the `status`
   field of the body is the HTTP status returned. *)
C10_RandomStatus ==
    (handler = "random-status" /\ pc = "done") =>
        LET entries == Split(CodesText, ",")
        IN  IF \E k \in 1..Len(entries) : ~IsInteger(entries[k])
            THEN /\ status = 400
                 /\ "error" \in DOMAIN body
                 /\ "status" \notin DOMAIN body
                 /\ args = <<>>
            ELSE /\ \E k \in 1..Len(entries) : ParseInt(entries[k]).val = status
                 /\ body.status = status
                 /\ args.chosen_code = status
                 /\ Len(body.available_codes) = Len(entries)

\* "abc,200" was refused with 400
C10_Witness ==
    /\ handler = "random-status" /\ pc = "done"
    /\ req.codes = Given(<<"a", "b", "c", ",", "2", "0", "0">>)
    /\ status = 400
    /\ body = [error |-> "Invalid status codes"]

-----------------------------------------------------------------------------
\* The state the client names, capitals aside ("closed" when it names none)
RequestedState == Lower(IF req.state.present THEN req.state.text ELSE ClosedText)

(* C11: /simulate/circuit-breaker answers state=closed with HTTP 200 and
   state=open with HTTP 503 and a retry_after, whatever the draw; state=half-open
   is answered with exactly one of HTTP 200 ("succeeded, circuit may close") and
   HTTP 503 ("failed, circuit reopened", with a retry_after), and which of the
   two is decided by the draw of this request alone: a draw below one half
   succeeds, any other fails. *)
C11_CircuitBreaker ==
    (handler = "circuit-breaker" /\ pc = "done") =>
        /\ RequestedState = ClosedText =>
               status = 200 /\ body.circuit_breaker_state = "closed"
        /\ RequestedState = OpenText =>
               status = 503 /\ "retry_after" \in DOMAIN body
        /\ RequestedState = HalfOpenText =>
               /\ status \in {200, 503}
               /\ status = 200 <=> 2 * args.draw < ProbScale
               /\ status = 200 => body.message = "Request succeeded, circuit may close"
               /\ status = 503 =>
                      /\ body.message = "Request failed, circuit reopened"
                      /\ "retry_after" \in DOMAIN body

\* A half-open request whose draw was one half or more: failed, circuit reopened
C11_Witness ==
    /\ handler = "circuit-breaker" /\ pc = "done"
    /\ req.state = Given(HalfOpenText)
    /\ 2 * args.draw >= ProbScale
    /\ status = 503
    /\ body.circuit_breaker_state = "half-open -> open"

-----------------------------------------------------------------------------
\* The limit the client sent reads as an integer (or none was sent)
IntegerLimit == ~req.limit.present \/ ParseInt(req.limit.text).ok

(* C12: for every integer `limit`, /simulate/rate-limit ends with one of two
   responses: the count being (current minute + random offset) modulo limit,
   HTTP 429 with a retry_after when count >= limit, and otherwise HTTP 200
   with remaining = limit - count. *)
C12_RateLimitTwoOutcomes ==
    (handler = "rate-limit" /\ IntegerLimit) =>
        /\ pc = "done" /\ fault = "none"
        /\ status \in {200, 429}
        /\ args.request_count = PyMod(args.current_minute + args.offset, args.limit)
        /\ status = 429 <=> args.request_count >= args.limit
        /\ status = 429 => "retry_after" \in DOMAIN body
        /\ status = 200 => body.remaining = args.limit - args.request_count

-----------------------------------------------------------------------------
\* The number the client asked for (the default when it sent none)
Asked(field, default) == ArgInt(req[field], default).val

\* Work has begun: a unit or a sleep happened, a thread exists, a call is active
WorkBegun == trace # <<>> \/ threads # <<>> \/ stack # <<>>

(* C13: the clamp comes before the work and is what the response reports.  As
   soon as a handler has emitted a unit, slept, started a thread or entered a
   call, the value it works with is the requested one cut down to the maximum
   (chunks 100, events 50, count 50, durations 120 and 300, depth 10,
   connections 50, probability 1), and no unit, thread or call exceeds it;
   cascade's requested_depth, connections' simulated_connections, fail's
   probability and every chunk's total_chunks are that clamped value and not
   the requested one. *)
C13_ClampBeforeWorkAndReported ==
    /\ (handler = "streaming" /\ WorkBegun) =>
           /\ args.chunks = Min(Asked("chunks", 10), 100)
           /\ \A k \in 1..Len(Units) :
                 Units[k].total_chunks = args.chunks /\ Units[k].chunk <= args.chunks
    /\ (handler = "sse" /\ WorkBegun) => args.events = Min(Asked("events", 10), 50)
    /\ (handler = "notifications" /\ WorkBegun) => args.count = Min(Asked("count", 10), 50)
    /\ (handler = "feed" /\ WorkBegun) => args.duration = Min(Asked("duration", 30), 120)
    /\ (handler = "status" /\ WorkBegun) => args.duration = Min(Asked("duration", 60), 300)
    /\ (handler = "cascade" /\ WorkBegun) =>
           /\ args.depth = Min(req.depth, 10)
           /\ \A k \in 1..Len(stack) : stack[k] <= args.depth
    /\ (handler = "cascade" /\ pc = "done") =>
           /\ body.requested_depth = Min(req.depth, 10)
           /\ body.cascade_result.level = body.requested_depth
    /\ (handler = "connections" /\ WorkBegun) =>
           /\ args.count = Min(req.count, 50)
           /\ DOMAIN threads = 0..(args.count - 1)
    /\ (handler = "connections" /\ pc = "done") =>
           /\ body.simulated_connections = Min(req.count, 50)
           /\ Len(body.results) = body.simulated_connections
    /\ (handler = "fail" /\ pc = "done") =>
           /\ body.probability = Min(req.probability, ProbScale)
           /\ status = 500 <=> args.draw < body.probability

\* 51 connections were asked for; 50 were simulated and 50 are reported
C13_Witness ==
    /\ handler = "connections" /\ pc = "done"
    /\ req.count = MaxConnections + 1
    /\ body.simulated_connections = MaxConnections
    /\ Len(body.results) = MaxConnections

-----------------------------------------------------------------------------
\* The endpoints that answer with a generator
Streams == {"streaming", "sse", "notifications", "feed", "status"}

\* Units the generator has yielded and the server has not written yet
InFlight == Len(Units) - sent

(* C14: streaming is incremental and stops on disconnect.  A generator yields
   unit k + 1 only once the server has written unit k, so at most one unit is
   ever waiting to be written, and it starts the sleep that follows a unit only
   once that unit is written; and once the server has stopped asking (a write
   failed because the client is gone) the generator yields nothing and sleeps
   no more, for ever. *)
C14_IncrementalAndStops ==
    /\ [](handler \in Streams => InFlight \in {0, 1} /\ SleepCount <= sent)
    /\ [][(handler \in Streams /\ trace' # trace) => (InFlight = 0)]_vars
    /\ [][(consumer = "stopped") => (trace' = trace /\ consumer' = "stopped")]_vars

\* A feed was cut by a failed write with time left to run: two frames were
\* written and the third, never written, stays the last one yielded
C14_Witness ==
    /\ handler = "feed" /\ consumer = "stopped" /\ pc = "closed"
    /\ Running(args.duration)
    /\ sent = 2
    /\ Len(Units) = 3
    /\ trace[Len(trace)] = FeedItem(3)

-----------------------------------------------------------------------------
\* ceil(a / b) for b >= 1: the least q with q * b >= a
Ceil(a, b) == CHOOSE q \in (-1 - (IF a < 0 THEN -a ELSE a))..(1 + (IF a < 0 THEN -a ELSE a)) :
                  q * b >= a /\ (q - 1) * b < a

(* C17: for all integer page, per_page and total_items, /advanced/paginated
   reports page >= 1 and per_page in [1, 100], the requested values clamped,
   and with them total_pages = ceil(total_items / per_page), has_prev =
   (page > 1), has_next = (page < total_pages); prev_page and the prev link are
   null exactly when has_prev is false, next_page and the next link are null
   exactly when has_next is false, and when not null they name page - 1 and
   page + 1. *)
C17_PaginationWindow ==
    (handler = "paginated" /\ pc = "done") =>
        LET g == body.pagination
        IN  /\ g.page = Max(1, Asked("page", 1))
            /\ g.per_page = Min(Max(1, Asked("per_page", 20)), 100)
            /\ g.total_items = Asked("total_items", 1000)
            /\ g.total_pages = Ceil(g.total_items, g.per_page)
            /\ g.has_prev <=> g.page > 1
            /\ g.has_next <=> g.page < g.total_pages
            /\ g.prev_page = None <=> ~g.has_prev
            /\ g.links.prev = None <=> ~g.has_prev
            /\ g.next_page = None <=> ~g.has_next
            /\ g.links.next = None <=> ~g.has_next
            /\ g.has_prev => g.prev_page = Some(g.page - 1)
            /\ g.has_next => g.next_page = Some(g.page + 1)

\* Page 2 of 7 items by 3: three pages, a page before and a page after
C17_Witness ==
    /\ handler = "paginated" /\ pc = "done"
    /\ body.pagination.page = 2
    /\ body.pagination.per_page = 3
    /\ body.pagination.total_items = 7
    /\ body.pagination.total_pages = 3
    /\ body.pagination.has_prev /\ body.pagination.has_next
    /\ body.pagination.links.next = Some(Link(3, 3))
    /\ Len(body.items) = 3

-----------------------------------------------------------------------------
\* The unit carries its index and the total, and they are equal
IndexIsTotal(e) ==
    /\ {"chunk", "total_chunks"} \subseteq DOMAIN e
    /\ e.chunk = e.total_chunks

\* The unit is a dedicated completion marker
IsMarker(e) ==
    \/ e.ev = "complete"
    \/ e.ev = "data" /\ "of" \in DOMAIN e /\ e.of \in {"complete", "stream_end"}

(* C15: when a stream (/advanced/streaming, /advanced/sse,
   /realtime/notifications, /realtime/status, /realtime/feed) has run to its
   end, the last unit it emitted can be told to be the final one: its index
   equals the total it carries, or it is a dedicated completion marker. *)
C15_FinalUnitDistinguishable ==
    (handler \in Streams /\ pc = "done" /\ Units # <<>>) =>
        LET last == Units[Len(Units)]
        IN  IndexIsTotal(last) \/ IsMarker(last)

-----------------------------------------------------------------------------
(* C16: for every `chunks` and `delay` the parser accepts, /advanced/streaming
   works with a chunk count in [1, 100] and a delay in [0, 5] seconds: chunks
   <= 0 is raised to 1, a negative delay is raised to 0, and a value inside
   the range is kept. *)
C16_StreamingRange ==
    (handler = "streaming" /\ Accepted) =>
        LET chunks == Asked("chunks", 10)
            delay == ArgFloat(req.delay, 5).val
        IN  /\ 1 <= args.chunks /\ args.chunks <= 100
            /\ 0 <= args.delay /\ args.delay <= 50
            /\ chunks <= 0 => args.chunks = 1
            /\ delay < 0 => args.delay = 0
            /\ (1 <= chunks /\ chunks <= 100) => args.chunks = chunks
            /\ (0 <= delay /\ delay <= 50) => args.delay = delay

-----------------------------------------------------------------------------
(* C18: /stress/connections/{count} has no failure outcome: for every count
   in 0 .. 50, count = 0 included, the handler never ends in an exception, and
   it ends with HTTP 200 and a results list in ascending order of
   connection_id. *)
C18_ConnectionsNeverFail ==
    (handler = "connections" /\ req.count \in 0..50) =>
        /\ fault = "none" /\ pc # "fault"
        /\ status \in {0, 200}
        /\ pc = "done" =>
               /\ status = 200
               /\ \A k \in 1..(Len(body.results) - 1) :
                     body.results[k].connection_id < body.results[k + 1].connection_id

-----------------------------------------------------------------------------
\* The simulator endpoints
Simulators == {"fail", "random-status", "rate-limit", "circuit-breaker"}

(* C19: every response of /simulate/fail, /simulate/random-status,
   /simulate/rate-limit and /simulate/circuit-breaker whose status is not 2xx
   is an object that has an `error` field. *)
C19_FailuresCarryError ==
    (handler \in Simulators /\ Finished /\ ~(200 <= status /\ status <= 299)) =>
        "error" \in DOMAIN body

-----------------------------------------------------------------------------
\* The utility endpoints
Utilities == {"health", "version", "ping"}

(* C20: a call of /util/health, /util/ping or /util/version that repeats the
   call before it (same method, same client) returns a body with the same
   fields, and every field but `timestamp` has the value it had before. *)
C20_UtilitiesRepeat ==
    (handler \in Utilities /\ previous # <<>>) =>
        /\ DOMAIN body = DOMAIN previous
        /\ \A f \in DOMAIN body \ {"timestamp"} : body[f] = previous[f]

-----------------------------------------------------------------------------
\* The endpoints whose generator loops while the duration has not elapsed
TimedFeeds == {"feed", "status"}

\* The first line of a data frame of a timed feed
OpensFrame(e) ==
    \/ e.ev = "data" /\ "feed_type" \in DOMAIN e
    \/ e.ev = "event" /\ e.type = "status_update"

\* The frame carries an id (`id` in a feed, `update_id` in a status stream)
CarriesId(e) == e.ev = "data" /\ ({"id", "update_id"} \cap DOMAIN e) # {}
IdOf(e) == IF "id" \in DOMAIN e THEN e.id ELSE e.update_id

RECURSIVE LastIdIn(_, _)
\* The id of the last frame among the first k entries of t, 0 when there is none
LastIdIn(t, k) ==
    IF k = 0 THEN 0
    ELSE IF CarriesId(t[k]) THEN IdOf(t[k])
    ELSE LastIdIn(t, k - 1)

\* A frame that carries an id is emitted in this step
IdEmitted ==
    /\ handler \in TimedFeeds
    /\ Len(trace') = Len(trace) + 1
    /\ CarriesId(trace'[Len(trace')])

\* A data frame of a timed feed is begun in this step
FrameBegins ==
    /\ handler \in TimedFeeds
    /\ Len(trace') = Len(trace) + 1
    /\ OpensFrame(trace'[Len(trace')])

\* The loop of a timed feed has ended: its test has failed
LoopEnded == handler \in TimedFeeds /\ pc \in {"final", "done"}

(* C22: in /realtime/feed and /realtime/status the elapsed-time test comes
   before every iteration: a data frame is begun only at the loop test and only
   when the elapsed time read there is below the duration; the loop ends only
   at a test that reads an elapsed time of at least the duration, and no data
   frame is begun after that; and the ids the frames carry (id, update_id) are
   1, 2, 3, ... without gap: the first is 1 and each is the one before plus 1. *)
C22_CheckBeforeEveryFrame ==
    /\ [][FrameBegins => (pc = "check" /\ now - start_time < args.duration * 10)]_vars
    /\ [][(handler \in TimedFeeds /\ ~LoopEnded /\ LoopEnded')
            => (pc = "check" /\ now - start_time >= args.duration * 10)]_vars
    /\ [][LoopEnded => (~FrameBegins /\ pc' # "check")]_vars
    /\ [][IdEmitted => (IdOf(trace'[Len(trace')]) = LastIdIn(trace, Len(trace)) + 1)]_vars

\* A status stream whose third test was the first to fail: two updates, ids 1
\* and 2, then the end
C22_Witness ==
    /\ handler = "status" /\ pc = "done"
    /\ Len(Units) = 6
    /\ Units[2].update_id = 1 /\ Units[4].update_id = 2
    /\ now - start_time >= args.duration * 10
    /\ SleepCount = 2

-----------------------------------------------------------------------------
\* The `event:` lines of the given type the stream has emitted
EventLines(type) == {k \in 1..Len(Units) : Units[k] = EventLine(type)}

\* The stream of the request has begun and is over: its generator has returned
\* or has raised
StreamOver == status = 200 /\ pc \in {"done", "fault"}

\* The stream ends with one stream_end frame that counts the updates emitted
EndsWithStreamEnd ==
    LET n == Len(Units)
        updates == Cardinality(EventLines("status_update"))
    IN  /\ n >= 2
        /\ Units[n - 1] = EventLine("stream_end")
        /\ Units[n] = StreamEndData(updates)
        /\ EventLines("stream_end") = {n - 1}
        /\ 2 * updates = n - 2

(* C24: a /realtime/status stream always ends with exactly one
   `event: stream_end` frame: it is the last frame, after the last
   status_update and also when there was none, and its total_updates is the
   number of status_update frames the stream emitted. *)
C24_EndsWithOneStreamEnd ==
    (handler = "status" /\ StreamOver) => EndsWithStreamEnd

-----------------------------------------------------------------------------
\* The frames of /realtime/notifications with count N, in order: N
\* notifications with ids 1..N, each an event line and its data line, and
\* then the completion frame
NotificationFrames(N) ==
    [k \in 1..(2 * Max(N, 0) + 2) |->
        IF k > 2 * Max(N, 0)
        THEN IF k % 2 = 1 THEN EventLine("complete") ELSE CompleteData
        ELSE IF k % 2 = 1 THEN EventLine("notification")
             ELSE [ev |-> "data", of |-> "notification", id |-> k \div 2]]

\* The trace of /realtime/notifications with count N and the given frequency:
\* a sleep after the data line of every notification but the last
NotificationTrace(N, frequency) ==
    [k \in 1..(2 * Max(N, 0) + 2 + Max(N - 1, 0)) |->
        IF k > 3 * Max(N - 1, 0)
        THEN NotificationFrames(N)[k - Max(N - 1, 0)]
        ELSE IF k % 3 = 0 THEN Slept(frequency)
             ELSE NotificationFrames(N)[k - (k \div 3)]]

(* C25: a /realtime/notifications stream with effective count N (the requested
   count, at most 50; N <= 0 included) emits exactly max(N, 0) notification
   frames with ids 1..N in order, each `event:` line directly followed by its
   `data:` line, and then exactly one `complete` frame, which is last; it
   sleeps `frequency` (at least 0.5 s) between two consecutive notifications
   only, never after the last one. *)
C25_NotificationsThenComplete ==
    (handler = "notifications" /\ StreamOver) =>
        /\ args.frequency >= MinFrequency
        /\ args.count = Min(Asked("count", DefaultNotifications), MaxNotifications)
        /\ trace = NotificationTrace(args.count, args.frequency)

-----------------------------------------------------------------------------
\* The main thread of /stress/connections has left the join loop: the response
\* is being assembled, or is out
Assembling ==
    /\ handler = "connections"
    /\ \/ pc = "join" /\ i >= args.count
       \/ pc \in {"done", "fault"}

\* The connection_ids of the entries of the list
IdsOf(list) == {list[k].connection_id : k \in 1..Len(list)}

(* C26: /stress/connections assembles its response only after every one of
   the `count` workers has finished: from the moment the results are sorted
   and averaged, every worker has ended and the list holds exactly `count`
   entries, one for each worker (no append is lost, whatever the order of the
   appends), and the list does not change any more. *)
C26_AssembledAfterAllWorkers ==
    /\ [](Assembling =>
            /\ \A k \in DOMAIN threads : threads[k].at = "done"
            /\ Len(results) = args.count
            /\ IdsOf(results) = 0..(args.count - 1))
    /\ [][Assembling => (results' = results /\ threads' = threads)]_vars

\* Three workers that appended in the order 2, 0, 1, the response being out
C26_Witness ==
    /\ handler = "connections" /\ pc = "done"
    /\ args.count = 3
    /\ Len(results) = 3
    /\ results[1].connection_id = 2
    /\ results[2].connection_id = 0
    /\ body.results[1].connection_id = 0

-----------------------------------------------------------------------------
\* The calls of cascade_function that returned the base case
BaseCases(r) == {k \in 1..Len(Levels(r)) : Levels(r)[k] = 0}

\* A call of cascade_function begins in this step
CascadeCalled == handler' = "cascade" /\ Len(stack') = Len(stack) + 1

(* C27: the recursion of /stress/cascade ends for every clamped depth d in
   0..10: the request is answered; no call is made with a level below 0 and
   the call of level L is made after exactly d - L sleeps (one sleep at every
   level above 0, before the descent); and when the request is answered
   d + 1 calls have returned, exactly one of them the base case (level 0),
   after exactly d sleeps. *)
C27_CascadeTerminates ==
    /\ (handler = "cascade") ~> (handler = "cascade" /\ pc = "done")
    /\ [](handler = "cascade" =>
            /\ args.depth \in 0..MaxDepth
            /\ \A k \in 1..Len(stack) : stack[k] = args.depth - (k - 1) /\ stack[k] >= 0)
    /\ [][CascadeCalled => (SleepCount' = args.depth' - Top(stack'))]_vars
    /\ []((handler = "cascade" /\ pc = "done") =>
            /\ Len(Levels(body.cascade_result)) = args.depth + 1
            /\ Cardinality(BaseCases(body.cascade_result)) = 1
            /\ SleepCount = args.depth)

\* The deepest cascade was answered: 11 calls, 10 sleeps, one base case
C27_Witness ==
    /\ handler = "cascade" /\ pc = "done"
    /\ args.depth = MaxDepth
    /\ SleepCount = MaxDepth
    /\ Len(Levels(body.cascade_result)) = MaxDepth + 1
    /\ BaseCases(body.cascade_result) = {MaxDepth + 1}

-----------------------------------------------------------------------------
(* C29: the items /advanced/paginated returns are exactly the requested
   window: with the page, per_page and total_items the response reports, their
   ids are the ascending run without gap from (page - 1) * per_page + 1 to
   min(page * per_page, total_items); there are max(0, min(per_page,
   total_items - (page - 1) * per_page)) of them, never more than per_page,
   and none on a page beyond total_pages. *)
C29_ItemsAreTheWindow ==
    (handler = "paginated" /\ pc = "done") =>
        LET g == body.pagination
            first == (g.page - 1) * g.per_page + 1
            last == Min(g.page * g.per_page, g.total_items)
            count == Len(body.items)
        IN  /\ count = Max(0, Min(g.per_page, g.total_items - (g.page - 1) * g.per_page))
            /\ count <= g.per_page
            /\ \A n \in 1..count : body.items[n].id = first + (n - 1)
            /\ count > 0 => body.items[count].id = last
            /\ g.page > g.total_pages => count = 0

\* The last page of 7 items by 3 holds the one item left, item 7
C29_Witness ==
    /\ handler = "paginated" /\ pc = "done"
    /\ body.pagination.page = 3
    /\ body.pagination.per_page = 3
    /\ body.pagination.total_items = 7
    /\ body.pagination.total_pages = 3
    /\ body.items = <<[id |-> 7]>>

-----------------------------------------------------------------------------
(* C30: for every limit >= 1, every minute 0..59 and every offset 1..15,
   /simulate/rate-limit computes a current_count in 0..limit - 1, so it
   answers HTTP 200 with remaining in 1..limit and never takes the 429
   branch. *)
C30_NeverRateLimited ==
    (handler = "rate-limit" /\ Asked("limit", DefaultLimit) >= 1) =>
        /\ pc = "done" /\ fault = "none"
        /\ args.current_minute \in 0..LastMinute
        /\ args.offset \in MinOffset..MaxOffset
        /\ args.request_count \in 0..(args.limit - 1)
        /\ status = 200
        /\ body.current_count = args.request_count
        /\ body.remaining \in 1..args.limit
        /\ "retry_after" \notin DOMAIN body

\* The last minute and the largest offset with the first limit above their sum:
\* the count is their sum, one short of the limit
C30_Witness ==
    /\ handler = "rate-limit" /\ pc = "done"
    /\ args.limit = LastMinute + MaxOffset + 1
    /\ args.current_minute = LastMinute /\ args.offset = MaxOffset
    /\ body.current_count = LastMinute + MaxOffset
    /\ body.remaining = 1

-----------------------------------------------------------------------------
RECURSIVE SleptBy(_, _)
\* The sleeps of the workers 0..n-1 of a request, added up
SleptBy(workers, n) ==
    IF n = 0 THEN 0 ELSE workers[n - 1].slept + SleptBy(workers, n - 1)

\* The body of /stress/connections as its own workers alone determine it: one
\* entry for each worker, in the order of the ids, with the worker's own sleep
ConnectionsAlone(count, workers) ==
    [simulated_connections |-> count,
     results |-> [k \in 1..count |->
                    [connection_id |-> k - 1, duration |-> workers[k - 1].slept]],
     average_duration |-> [sum |-> SleptBy(workers, count), len |-> count]]

\* The first request is answered as its own parameters and draws determine
OwnResponseAlone ==
    /\ (handler = "connections" /\ pc = "done") =>
            /\ args.count = Min(req.count, MaxConnections)
            /\ body = ConnectionsAlone(args.count, threads)
    /\ (handler = "connections" /\ pc = "fault") => req.count = 0
    /\ (handler = "circuit-breaker" /\ pc = "done") =>
            LET r == CircuitOutcome(RequestedState, args.draw)
            IN  status = r.status /\ body = r.body

\* The second request is answered as its own workers determine
OtherResponseAlone ==
    /\ (other.handler = "connections" /\ other.pc = "done") =>
            other.body = ConnectionsAlone(other.count, other.threads)
    /\ (other.handler = "connections" /\ other.pc = "fault") => other.count = 0

(* C28: no state is shared between requests.  With two requests handled at the
   same time, each to /stress/connections or /simulate/circuit-breaker and in
   every order of their steps (one after the other included), a step of one
   request changes nothing of the other, and each response is what the
   request's own parameters and draws determine, as if it ran alone: the two
   results lists of two concurrent /stress/connections requests are separate,
   each holding the entries of its own workers only. *)
C28_NoCrossRequestState ==
    /\ [][(other' # other) => (own' = own)]_vars
    /\ [][(own' # own) => (other' = other)]_vars
    /\ [](OwnResponseAlone /\ OtherResponseAlone)
    /\ []((handler = "connections" /\ other.handler = "connections") =>
            /\ Len(results) = Cardinality({k \in DOMAIN threads : threads[k].at = "done"})
            /\ Len(other.results) =
                 Cardinality({k \in DOMAIN other.threads : other.threads[k].at = "done"}))

\* Two /stress/connections requests under way together: the first is answered,
\* its two workers having appended in the order 1, 0, while one worker of the
\* second has appended and the other has not yet
C28_Witness ==
    /\ handler = "connections" /\ pc = "done"
    /\ args.count = 2
    /\ results[1].connection_id = 1
    /\ body.results[1].connection_id = 0
    /\ other.handler = "connections" /\ other.pc = "join"
    /\ other.count = 2
    /\ Len(other.results) = 1
    /\ other.threads[0].at = "slept"

-----------------------------------------------------------------------------
\* The streams that emit a number of units fixed by the request
CountDriven == {"streaming", "sse", "notifications"}

\* The count N the stream works with
EffectiveCount ==
    IF handler = "streaming" THEN args.chunks
    ELSE IF handler = "sse" THEN args.events
    ELSE args.count

\* The data units the stream has emitted: the chunks, the `data:` lines of
\* events, notifications, feed items and status updates, completion frames
\* left out
DataFrames ==
    LET carriesData(e) == ~IsSleep(e) /\ e.ev # "event" /\ ~IsMarker(e)
    IN  Len(SelectSeq(trace, carriesData))

\* At most n frames at a pause of `interval` tenths fit into `duration`
\* seconds: n <= ceil(duration / interval), and none when duration <= 0
FitsDuration(n, interval, duration) ==
    n = 0 \/ (duration > 0 /\ (n - 1) * interval < duration * 10)

(* C23: every stream ends after a bounded number of frames.  A count-driven
   stream (/advanced/streaming, /advanced/sse, /realtime/notifications) that
   is over has emitted its N data units (none when N <= 0); the clock
   advancing by at least the slept time on every sleep, /realtime/feed with
   duration D emits at most max(D, 0) frames, so at most 120, and
   /realtime/status at most ceil(D / interval) updates; a duration <= 0 gives
   no data frame. *)
C23_StreamsEndAfterTheirFrames ==
    /\ (handler \in CountDriven /\ StreamOver) => DataFrames = Max(EffectiveCount, 0)
    /\ (handler = "feed" /\ status = 200) =>
            /\ DataFrames <= Max(args.duration, 0)
            /\ DataFrames <= MaxFeedDuration
            /\ FitsDuration(DataFrames, FeedPause, args.duration)
    /\ (handler = "status" /\ status = 200) =>
            FitsDuration(DataFrames, args.interval, args.duration)

-----------------------------------------------------------------------------
\* The object the round trip should give back for an object of the input: the
\* same keys, each value turned into a string
Stringified(item) ==
    [name \in {<<key>> : key \in DOMAIN item} |-> Some(StrOf(item[name[1]]))]

(* C21: the round trip JSON -> CSV -> JSON gives the input back.  For every
   non-empty array of flat objects posted to /convert/json-to-csv, posting the
   CSV it answers with to /convert/csv-to-json yields as many rows as the
   array has objects, in the same order, each with the same set of keys and
   the same values as the object it comes from, the values turned into
   strings. *)
C21_RoundTrip ==
    (handler = "csv-to-json" /\ pc = "done") =>
        /\ status = 200
        /\ body.row_count = Len(previous)
        /\ Len(body.converted_data) = Len(previous)
        /\ \A r \in 1..Len(previous) :
              /\ DOMAIN body.converted_data[r] = {<<key>> : key \in DOMAIN previous[r]}
              /\ body.converted_data[r] = Stringified(previous[r])

====
